---- MODULE Spec2Model ----
(***************************************************************************)
(* A model of the glob-expansion engine of src/rust/engine/fs/src/lib.rs:  *)
(* the PathGlob parser, the VFS operations of PosixFS (scandir, read_link, *)
(* stat), directory_listing, canonicalize, expand_single, the round loop   *)
(* of expand with its strict-match back-propagation, and path_stats.       *)
(*                                                                         *)
(* A path is a sequence of component strings (the root is <<>>).  A        *)
(* file-spec string is the sequence of its components as                   *)
(* Path::components() yields them, with "/" standing for a leading root    *)
(* component and "." for a CurDir component.                               *)
(***************************************************************************)
EXTENDS Integers, Sequences, FiniteSets, TLC

(***************************************************************************)
(* Bounds of the model.                                                    *)
(***************************************************************************)
\* the longest include list handed to PathGlobs::create
MaxInclude == 2
\* the longest path list handed to path_stats
MaxPaths == 2
\* the number of rounds of the loop_fn of expand after which the model
\* stops following an expansion (only a diverging expansion gets there)
MaxRounds == 5
\* the longest file-spec, in components, that is parsed for its own sake
MaxParts == 4

(***************************************************************************)
(* Generic helpers on sequences.                                           *)
(***************************************************************************)
Range(s) == {s[i] : i \in 1..Len(s)}

Last(s) == s[Len(s)]

Front(s) == SubSeq(s, 1, Len(s) - 1)

RECURSIVE FlattenSeq(_)
FlattenSeq(ss) ==
  IF ss = <<>> THEN <<>> ELSE Head(ss) \o FlattenSeq(Tail(ss))

NoDuplicates(s) == \A i, j \in 1..Len(s) : i # j => s[i] # s[j]

IsPrefix(p, q) == Len(p) <= Len(q) /\ SubSeq(q, 1, Len(p)) = p

SeqsUpTo(S, n) == UNION {[1..k -> S] : k \in 0..n}

\* Body(v) for the value v of an expression, which is evaluated once: the
\* closure Body is handed the value that a step has produced
With(value, Body(_)) == CHOOSE r \in {Body(v) : v \in {value}} : TRUE

(***************************************************************************)
(* File names, in the byte order in which Path::cmp compares them.         *)
(***************************************************************************)
SortedNames ==
  << "*", "a", "a.txt", "abc", "abs", "b", "b.txt", "d", "deep", "dir",
     "dir_symlink", "doesnotexist", "e", "esc", "executable_file", "f", "gone",
     "nonexistent", "null", "outside", "recursive_symlink", "regular_file", "s",
     "secret", "star", "symlink", "symlink_to_nothing", "t", "u", "up", "via", "x",
     "y", "z" >>

NameRank(n) == CHOOSE i \in 1..Len(SortedNames) : SortedNames[i] = n

(***************************************************************************)
(* The filesystems.  An entry is [kind, mode, target]: kind is "dir",      *)
(* "file", "link" or "other" (a socket, a device, ...), mode is st_mode    *)
(* (the file type above the nine permission bits), target is the text of   *)
(* a link as components ("/" first for an absolute target).                *)
(***************************************************************************)
\* the permission bits 0oUGO
Octal(u, g, o) == u * 64 + g * 8 + o

D == [kind |-> "dir", mode |-> 16384 + Octal(7, 5, 5), target |-> <<>>]

\* a regular file (S_IFREG is 0o100000) with the permission bits perm
F(perm) == [kind |-> "file", mode |-> 32768 + perm, target |-> <<>>]

L(t) == [kind |-> "link", mode |-> 40960 + Octal(7, 7, 7), target |-> t]

O == [kind |-> "other", mode |-> 8192 + Octal(6, 6, 6), target |-> <<>>]

\* the tree of posixfs_test::path_stats_for_paths
TreeTest ==
  (<<"dir">> :> D) @@
  (<<"dir", "recursive_symlink">> :> L(<<"..", "symlink">>)) @@
  (<<"dir_symlink">> :> L(<<"dir">>)) @@
  (<<"executable_file">> :> F(Octal(7, 0, 0))) @@
  (<<"regular_file">> :> F(Octal(6, 0, 0))) @@
  (<<"symlink">> :> L(<<"executable_file">>)) @@
  (<<"symlink_to_nothing">> :> L(<<"doesnotexist">>))

\* the tree of the trailing double-star scenario
TreeAbc ==
  (<<"abc">> :> D) @@
  (<<"abc", "x">> :> F(Octal(6, 1, 1))) @@
  (<<"abc", "y">> :> D) @@
  (<<"abc", "y", "z">> :> F(Octal(6, 4, 4)))

\* the tree of the exclude-overrides-include scenario
TreeSecret ==
  (<<"a.txt">> :> F(Octal(6, 4, 4))) @@
  (<<"secret">> :> D) @@
  (<<"secret", "b.txt">> :> F(Octal(0, 1, 1)))

\* a cycle of links, and a directory link to its own parent directory
TreeCycle ==
  (<<"a">> :> L(<<"b">>)) @@
  (<<"b">> :> L(<<"a">>)) @@
  (<<"dir">> :> D) @@
  (<<"dir", "f">> :> F(Octal(6, 4, 4))) @@
  (<<"dir", "up">> :> L(<<"..", "dir">>))

\* a link in a directory whose target leaves the root
TreeEsc ==
  (<<"f">> :> F(Octal(6, 4, 4))) @@
  (<<"dir">> :> D) @@
  (<<"dir", "esc">> :> L(<<"..", "..", "x">>))

\* a link with an absolute target, and a link to that link
TreeAbs ==
  (<<"f">> :> F(Octal(1, 0, 0))) @@
  (<<"dir">> :> D) @@
  (<<"dir", "abs">> :> L(<<"/", "f">>)) @@
  (<<"dir", "via">> :> L(<<"abs">>))

\* an entry that is neither file, directory nor link
TreeOther ==
  (<<"f">> :> F(Octal(6, 4, 4))) @@
  (<<"dir">> :> D) @@
  (<<"dir", "null">> :> O)

\* a tree under a PosixFS that ignores executable_file, secret and s: a
\* link to an ignored file, a link to a file in an ignored directory, and
\* an ignored link
TreeIgnore ==
  (<<"executable_file">> :> F(Octal(7, 0, 0))) @@
  (<<"regular_file">> :> F(Octal(6, 0, 0))) @@
  (<<"s">> :> L(<<"regular_file">>)) @@
  (<<"secret">> :> D) @@
  (<<"secret", "b.txt">> :> F(Octal(6, 4, 4))) @@
  (<<"symlink">> :> L(<<"executable_file">>)) @@
  (<<"via">> :> L(<<"secret", "b.txt">>))

\* a link whose target ends in "..", a broken link in a directory, and a
\* file named by a metacharacter
TreeUp ==
  (<<"t">> :> D) @@
  (<<"t", "f">> :> F(Octal(7, 1, 1))) @@
  (<<"t", "u">> :> D) @@
  (<<"t", "u", "gone">> :> L(<<"..", "nothing">>)) @@
  (<<"t", "u", "up">> :> L(<<"..">>)) @@
  (<<"t", "star">> :> L(<<"*">>)) @@
  (<<"t", "*">> :> F(Octal(6, 0, 0)))

\* a link at the root to a directory two levels down
TreeDeep ==
  (<<"a">> :> D) @@
  (<<"a", "b">> :> D) @@
  (<<"a", "b", "f">> :> F(Octal(6, 4, 4))) @@
  (<<"deep">> :> L(<<"a", "b">>)) @@
  (<<"x">> :> F(Octal(7, 5, 5)))

FsIds == {"test", "ignore", "abc", "secret", "cycle", "esc", "abs", "other", "up", "deep"}

FsEntries(id) ==
  CASE id = "test" -> TreeTest
    [] id = "ignore" -> TreeIgnore
    [] id = "abc" -> TreeAbc
    [] id = "secret" -> TreeSecret
    [] id = "cycle" -> TreeCycle
    [] id = "esc" -> TreeEsc
    [] id = "abs" -> TreeAbs
    [] id = "other" -> TreeOther
    [] id = "up" -> TreeUp
    [] id = "deep" -> TreeDeep

\* the ignore patterns the PosixFS was constructed with (PosixFS::new)
FsIgnore(id) ==
  IF id = "ignore" THEN << <<"executable_file">>, <<"secret">>, <<"s">> >> ELSE <<>>

Exists(id, p) == p = <<>> \/ p \in DOMAIN FsEntries(id)

IsDirectory(id, p) == p = <<>> \/ (p \in DOMAIN FsEntries(id) /\ FsEntries(id)[p].kind = "dir")

(***************************************************************************)
(* Path lookup by the operating system, confined to the root.              *)
(***************************************************************************)
Resolved(tag, path) == [tag |-> tag, path |-> path]

\* from directory cur along the components rest, following at most fuel
\* links: "at" the entry found, or "missing" (ENOENT), "notdir" (ENOTDIR),
\* "loop" (ELOOP), "absolute" (a link leaves through /), "outside" (..
\* above the root)
RECURSIVE Resolve(_, _, _, _)
Resolve(id, cur, rest, fuel) ==
  IF rest = <<>> THEN Resolved("at", cur)
  ELSE IF Head(rest) = "/" THEN Resolved("absolute", <<>>)
  ELSE IF Head(rest) = "." THEN Resolve(id, cur, Tail(rest), fuel)
  ELSE IF Head(rest) = ".." THEN
    IF cur = <<>> THEN Resolved("outside", <<>>)
    ELSE Resolve(id, Front(cur), Tail(rest), fuel)
  ELSE IF Append(cur, Head(rest)) \notin DOMAIN FsEntries(id) THEN Resolved("missing", <<>>)
  ELSE IF FsEntries(id)[Append(cur, Head(rest))].kind = "link" THEN
    IF fuel = 0 THEN Resolved("loop", <<>>)
    ELSE Resolve(id, cur, FsEntries(id)[Append(cur, Head(rest))].target \o Tail(rest),
                 fuel - 1)
  ELSE IF Tail(rest) # <<>> /\ FsEntries(id)[Append(cur, Head(rest))].kind # "dir"
    THEN Resolved("notdir", <<>>)
  ELSE Resolve(id, Append(cur, Head(rest)), Tail(rest), fuel)

\* the entry that the last component names in the directory found
LookupIn(id, parent, name) ==
  IF parent.tag # "at" THEN parent
  ELSE IF ~IsDirectory(id, parent.path) THEN Resolved("notdir", <<>>)
  ELSE IF Append(parent.path, name) \notin DOMAIN FsEntries(id) THEN Resolved("missing", <<>>)
  ELSE Resolved("at", Append(parent.path, name))

\* symlink_metadata and read_link of the operating system: the links among
\* the leading components are followed, the last component is not
Lookup(id, path) ==
  IF path = <<>> THEN Resolved("at", <<>>)
  ELSE With(Resolve(id, <<>>, Front(path), Cardinality(DOMAIN FsEntries(id))),
            LAMBDA parent : LookupIn(id, parent, Last(path)))

(***************************************************************************)
(* Results: [tag, val], tag "ok", "err" (val the kind of error) or "hang"  *)
(* (the future never completes).                                           *)
(***************************************************************************)
Ok(v) == [tag |-> "ok", val |-> v]

\* an error: its kind ("io", "traverse", "absolute", "pattern", "strict"),
\* and for a strict-match error the inputs named in its message
Error(kind, unmatched) == [kind |-> kind, unmatched |-> unmatched]

Err(kind) == [tag |-> "err", val |-> Error(kind, <<>>)]

Hang == [tag |-> "hang", val |-> "never"]

(***************************************************************************)
(* Stat and PathStat.                                                      *)
(***************************************************************************)
StatDir(p) == [kind |-> "Dir", path |-> p, is_executable |-> FALSE]

StatFile(p, x) == [kind |-> "File", path |-> p, is_executable |-> x]

StatLink(p) == [kind |-> "Link", path |-> p, is_executable |-> FALSE]

PathStatOf(symbolic, stat) == [kind |-> stat.kind, path |-> symbolic, stat |-> stat]

\* a faulty test of the mode: any of the three execute bits (mode & 0o111)
AnyExecuteBit(mode) ==
  \/ (mode \div 64) % 2 = 1
  \/ (mode \div 8) % 2 = 1
  \/ mode % 2 = 1

\* mode & 0o100 == 0o100
IsExecutable(mode) == (mode \div 64) % 2 = 1

\* PosixFS::stat_internal: the Stat for path_for_stat of an entry, or an
\* error for an entry that is neither directory, file nor link
StatInternal(path_for_stat, entry) ==
  CASE entry.kind = "dir" -> Ok(StatDir(path_for_stat))
    [] entry.kind = "file" -> Ok(StatFile(path_for_stat, IsExecutable(entry.mode)))
    [] entry.kind = "link" -> Ok(StatLink(path_for_stat))
    [] OTHER -> Err("io")

\* PosixFS::stat_path on what symlink_metadata found
StatFound(id, relative_path, found) ==
  CASE found.tag = "at" ->
         IF found.path = <<>> THEN Ok(StatDir(relative_path))
         ELSE StatInternal(relative_path, FsEntries(id)[found.path])
    [] found.tag = "missing" -> Err("notfound")
    [] OTHER -> Err("io")

\* PosixFS::stat_path: symlink_metadata, then stat_internal
StatPath(id, relative_path) ==
  With(Lookup(id, relative_path), LAMBDA found : StatFound(id, relative_path, found))

\* Path::cmp on paths of equal length: by the first component that differs
PathLess(p, q) ==
  \E k \in 1..Len(p) :
    /\ SubSeq(p, 1, k - 1) = SubSeq(q, 1, k - 1)
    /\ NameRank(p[k]) < NameRank(q[k])

\* one step of the sort: s is put behind the Stats that are not greater
InsertByPath(sorted, s) ==
  With(Cardinality({i \in 1..Len(sorted) : ~PathLess(s.path, sorted[i].path)}),
       LAMBDA k : SubSeq(sorted, 1, k) \o <<s>> \o SubSeq(sorted, k + 1, Len(sorted)))

\* a faulty scandir_sync: the Stats stay in the order of enumeration
Unsorted(stats) == stats

\* stats.sort_by(|s1, s2| s1.path().cmp(s2.path()))
RECURSIVE SortByPath(_)
SortByPath(stats) ==
  IF stats = <<>> THEN <<>>
  ELSE With(SortByPath(Front(stats)), LAMBDA sorted : InsertByPath(sorted, Last(stats)))

\* the entries of a directory
Children(id, dir) ==
  {p \in DOMAIN FsEntries(id) : Len(p) = Len(dir) + 1 /\ IsPrefix(dir, p)}

\* read_dir: the entries of a directory in the order in which the operating
\* system enumerates them, which is no order in particular; here the
\* descending one
RECURSIVE ReadDir(_)
ReadDir(children) ==
  IF children = {} THEN <<>>
  ELSE With(CHOOSE p \in children : \A q \in children : ~PathLess(p, q),
            LAMBDA last : <<last>> \o ReadDir(children \ {last}))

\* the map, collect and sort of scandir_sync over the enumerated entries
ScandirEntries(id, entries) ==
  IF \E i \in 1..Len(entries) : StatInternal(entries[i], FsEntries(id)[entries[i]]).tag = "err"
  THEN Err("io")
  ELSE With([i \in 1..Len(entries) |-> StatInternal(entries[i], FsEntries(id)[entries[i]]).val],
            LAMBDA stats : Ok(SortByPath(stats)))

\* PosixFS::scandir_sync
Scandir(id, dir) ==
  IF ~IsDirectory(id, dir) THEN Err("io")
  ELSE With(ReadDir(Children(id, dir)), LAMBDA entries : ScandirEntries(id, entries))

\* PosixFS::read_link: an absolute target is an error, a relative one is
\* joined to the parent of the link
ReadLink(id, link) ==
  LET t == FsEntries(id)[Lookup(id, link.path).path].target IN
  IF t # <<>> /\ t[1] = "/" THEN Err("io")
  ELSE Ok(Front(link.path) \o t)

(***************************************************************************)
(* glob::Pattern on one component.                                         *)
(***************************************************************************)
PARENT_DIR == ".."

DOUBLE_STAR == "**"

SINGLE_STAR_GLOB == "*"

\* a faulty DOUBLE_STAR_GLOB: the remainder of a trailing "**" is "*"
ONE_LEVEL_GLOB == "*"

DOUBLE_STAR_GLOB == "**"

\* Pattern::new fails on these
InvalidPatterns == {"***", "["}

\* names ending in .txt, .rs
HasSuffix(name, pat) ==
  \/ pat = "*.txt" /\ name \in {"a.txt", "b.txt"}
  \/ pat = "*.rs" /\ name \in {}

\* Pattern::matches_path on a file name
Matches(pat, name) ==
  CASE pat \in {"*", "**"} -> TRUE
    [] pat \in {"*.txt", "*.rs"} -> HasSuffix(name, pat)
    [] pat = "[*]" -> name = "*"
    [] OTHER -> pat = name

\* a faulty escape: the component is handed on as it is
EscapeNothing(c) == c

\* Pattern::escape on one component: every metacharacter is bracketed
Escape(c) == IF c = "*" THEN "[*]" ELSE c

(***************************************************************************)
(* GitignoreStyleExcludes.  A pattern is a sequence of components: one     *)
(* component matches a file name at any depth, <<d.., "**">> matches       *)
(* everything below d, any other pattern matches that path; a first        *)
(* component "!" negates the pattern.  The last matching pattern decides.  *)
(***************************************************************************)
GitignoreGlobMatches(pat, p) ==
  CASE Len(pat) = 1 -> p # <<>> /\ Matches(pat[1], Last(p))
    [] Len(pat) > 1 /\ Last(pat) = "**" ->
         /\ Len(p) >= Len(pat)
         /\ \A i \in 1..(Len(pat) - 1) : Matches(pat[i], p[i])
    [] OTHER ->
         /\ Len(p) = Len(pat)
         /\ \A i \in 1..Len(pat) : Matches(pat[i], p[i])

GitignorePatternMatches(pat, p) ==
  pat # <<>> /\
  IF pat[1] = "!" THEN GitignoreGlobMatches(Tail(pat), p) ELSE GitignoreGlobMatches(pat, p)

\* Gitignore::matched: "none", "ignore" or "whitelist"
GitignoreMatched(patterns, p) ==
  LET hits == {i \in 1..Len(patterns) : GitignorePatternMatches(patterns[i], p)} IN
  IF hits = {} THEN "none"
  ELSE LET last == CHOOSE i \in hits : \A j \in hits : j <= i IN
       IF patterns[last][1] = "!" THEN "whitelist" ELSE "ignore"

\* GitignoreStyleExcludes::is_ignored
IsIgnored(patterns, stat) == GitignoreMatched(patterns, stat.path) = "ignore"

\* a faulty context: it ignores nothing
ContextIgnoresNothing(id, stat) == FALSE

\* VFS::is_ignored for PosixFS: the ignore patterns of the context
ContextIsIgnored(id, stat) == IsIgnored(FsIgnore(id), stat)

(***************************************************************************)
(* PathGlob and its parser.                                                *)
(***************************************************************************)
Wildcard(canonical_dir, symbolic_path, wildcard) ==
  [kind |-> "Wildcard", canonical_dir |-> canonical_dir,
   symbolic_path |-> symbolic_path, wildcard |-> wildcard, remainder |-> <<>>]

DirWildcard(canonical_dir, symbolic_path, wildcard, remainder) ==
  [kind |-> "DirWildcard", canonical_dir |-> canonical_dir,
   symbolic_path |-> symbolic_path, wildcard |-> wildcard, remainder |-> remainder]

\* a faulty parse_globs: a ".." at the root stays at the root
RECURSIVE parse_globs_unchecked(_, _, _)
parse_globs_unchecked(canonical_dir, symbolic_path, parts) ==
  IF parts = <<>> THEN Ok(<<>>)
  ELSE IF parts[1] = DOUBLE_STAR THEN
    IF Len(parts) = 1
    THEN Ok(<< DirWildcard(canonical_dir, symbolic_path, SINGLE_STAR_GLOB, <<DOUBLE_STAR_GLOB>>),
               Wildcard(canonical_dir, symbolic_path, SINGLE_STAR_GLOB) >>)
    ELSE Ok(<< DirWildcard(canonical_dir, symbolic_path, SINGLE_STAR_GLOB, parts),
               IF Len(parts) = 2
               THEN Wildcard(canonical_dir, symbolic_path, parts[2])
               ELSE DirWildcard(canonical_dir, symbolic_path, parts[2],
                                SubSeq(parts, 3, Len(parts))) >>)
  ELSE IF parts[1] = PARENT_DIR THEN
    parse_globs_unchecked(IF canonical_dir = <<>> THEN <<>> ELSE Front(canonical_dir),
                          Append(symbolic_path, PARENT_DIR), Tail(parts))
  ELSE IF Len(parts) = 1 THEN Ok(<< Wildcard(canonical_dir, symbolic_path, parts[1]) >>)
  ELSE Ok(<< DirWildcard(canonical_dir, symbolic_path, parts[1], Tail(parts)) >>)

\* PathGlob::parse_globs: the globs of a file-spec given as patterns
RECURSIVE parse_globs(_, _, _)
parse_globs(canonical_dir, symbolic_path, parts) ==
  IF parts = <<>> THEN Ok(<<>>)
  ELSE IF parts[1] = DOUBLE_STAR THEN
    IF Len(parts) = 1
    THEN Ok(<< DirWildcard(canonical_dir, symbolic_path, SINGLE_STAR_GLOB, <<DOUBLE_STAR_GLOB>>),
               Wildcard(canonical_dir, symbolic_path, SINGLE_STAR_GLOB) >>)
    ELSE LET pathglob_with_doublestar ==
               DirWildcard(canonical_dir, symbolic_path, SINGLE_STAR_GLOB, parts)
             pathglob_no_doublestar ==
               IF Len(parts) = 2
               THEN Wildcard(canonical_dir, symbolic_path, parts[2])
               ELSE DirWildcard(canonical_dir, symbolic_path, parts[2],
                                SubSeq(parts, 3, Len(parts)))
         IN Ok(<<pathglob_with_doublestar, pathglob_no_doublestar>>)
  ELSE IF parts[1] = PARENT_DIR THEN
    \* PathBuf::pop fails on the empty path
    IF canonical_dir = <<>> THEN Err("traverse")
    ELSE parse_globs(Front(canonical_dir), Append(symbolic_path, PARENT_DIR), Tail(parts))
  ELSE IF Len(parts) = 1 THEN Ok(<< Wildcard(canonical_dir, symbolic_path, parts[1]) >>)
  ELSE Ok(<< DirWildcard(canonical_dir, symbolic_path, parts[1], Tail(parts)) >>)

\* parts.push(pattern), unless a later component is rejected
PushPart(part, rest) == IF rest.tag = "err" THEN rest ELSE Ok(<<part>> \o rest.val)

\* a faulty loop of PathGlob::parse: every "**" becomes a Pattern
RECURSIVE ParsePartsKeepAll(_, _)
ParsePartsKeepAll(components, prev_was_doublestar) ==
  IF components = <<>> THEN Ok(<<>>)
  ELSE IF Head(components) = "/" THEN Err("absolute")
  ELSE IF Head(components) = "." THEN ParsePartsKeepAll(Tail(components), prev_was_doublestar)
  ELSE IF Head(components) \in InvalidPatterns THEN Err("pattern")
  ELSE With(ParsePartsKeepAll(Tail(components), Head(components) = DOUBLE_STAR),
            LAMBDA rest : PushPart(Head(components), rest))

\* the loop of PathGlob::parse: CurDir components are skipped, a "**" that
\* follows a "**" is skipped, every other component becomes a Pattern
RECURSIVE ParseParts(_, _)
ParseParts(components, prev_was_doublestar) ==
  IF components = <<>> THEN Ok(<<>>)
  ELSE IF Head(components) = "/" THEN Err("absolute")
  ELSE IF Head(components) = "." THEN ParseParts(Tail(components), prev_was_doublestar)
  ELSE IF prev_was_doublestar /\ Head(components) = DOUBLE_STAR
       THEN ParseParts(Tail(components), prev_was_doublestar)
  ELSE IF Head(components) \in InvalidPatterns THEN Err("pattern")
  ELSE With(ParseParts(Tail(components), Head(components) = DOUBLE_STAR),
            LAMBDA rest : PushPart(Head(components), rest))

\* does a `..` of the components come with no component before it left to
\* cancel, depth components being left at the start
RECURSIVE AscendsFrom(_, _)
AscendsFrom(components, depth) ==
  IF components = <<>> THEN FALSE
  ELSE IF Head(components) = "." THEN AscendsFrom(Tail(components), depth)
  ELSE IF Head(components) = ".."
       THEN depth = 0 \/ AscendsFrom(Tail(components), depth - 1)
  ELSE AscendsFrom(Tail(components), depth + 1)

Ascends(components) == AscendsFrom(components, 0)

\* a faulty parse: parts that ascend above the root by their text are
\* rejected
ParseCollectedChecked(canonical_dir, symbolic_path, parts) ==
  IF parts.tag = "err" THEN parts
  ELSE IF Ascends(parts.val) THEN Err("traverse")
  ELSE parse_globs(canonical_dir, symbolic_path, parts.val)

\* the last line of PathGlob::parse, on the parts its loop collected
ParseCollected(canonical_dir, symbolic_path, parts) ==
  IF parts.tag = "err" THEN parts
  ELSE parse_globs(canonical_dir, symbolic_path, parts.val)

\* PathGlob::parse
parse(canonical_dir, symbolic_path, filespec) ==
  With(ParseParts(filespec, FALSE),
       LAMBDA parts : ParseCollected(canonical_dir, symbolic_path, parts))

PathGlobIncludeEntry(input, globs) == [input |-> input, globs |-> globs]

\* spec_globs_map.push(entry), unless this or a later file-spec is rejected
PushEntry(filespec, globs, rest) ==
  IF globs.tag = "err" THEN globs
  ELSE IF rest.tag = "err" THEN rest
  ELSE Ok(<<PathGlobIncludeEntry(filespec, globs.val)>> \o rest.val)

\* PathGlob::spread_filespecs: one include entry per file-spec, or the
\* first parse error
RECURSIVE spread_filespecs(_)
spread_filespecs(filespecs) ==
  IF filespecs = <<>> THEN Ok(<<>>)
  ELSE With(parse(<<>>, <<>>, Head(filespecs)), LAMBDA globs :
         With(spread_filespecs(Tail(filespecs)), LAMBDA rest :
           PushEntry(Head(filespecs), globs, rest)))

\* PathGlob::flatten_entries
flatten_entries(entries) == FlattenSeq([i \in 1..Len(entries) |-> entries[i].globs])

FlattenSpread(filespecs_globs) ==
  IF filespecs_globs.tag = "err" THEN filespecs_globs
  ELSE Ok(flatten_entries(filespecs_globs.val))

\* PathGlob::create
PathGlobCreate(filespecs) == With(spread_filespecs(filespecs), FlattenSpread)

(***************************************************************************)
(* StrictGlobMatching and PathGlobs.                                       *)
(***************************************************************************)
StrictGlobMatching == {"Error", "Warn", "Ignore"}

should_check_glob_matches(behavior) == behavior # "Ignore"

\* a faulty should_throw_on_error: every checking mode throws
ThrowsWhenChecked(behavior) == behavior # "Ignore"

should_throw_on_error(behavior) == behavior = "Error"

PathGlobsOf(include, exclude, strict_match_behavior) ==
  [include |-> include, exclude |-> exclude,
   strict_match_behavior |-> strict_match_behavior]

\* PathGlobs::create_with_globs_and_match_behavior, or the parse error
CreateWithGlobs(entries, exclude, strict_match_behavior) ==
  IF entries.tag = "err" THEN entries
  ELSE Ok(PathGlobsOf(entries.val, exclude, strict_match_behavior))

\* PathGlobs::create
PathGlobsCreate(include, exclude, strict_match_behavior) ==
  With(spread_filespecs(include),
       LAMBDA entries : CreateWithGlobs(entries, exclude, strict_match_behavior))

\* the input of the include entries that PathGlobs::from_globs makes
MISSING_GLOB_SOURCE == <<>>

\* a faulty from_globs: the globs are expanded under mode Error
from_globs_strict(globs) ==
  PathGlobsOf([i \in 1..Len(globs) |-> PathGlobIncludeEntry(MISSING_GLOB_SOURCE, <<globs[i]>>)],
              <<>>, "Error")

\* PathGlobs::from_globs: one entry per glob, no excludes, mode Ignore
from_globs(globs) ==
  PathGlobsOf([i \in 1..Len(globs) |-> PathGlobIncludeEntry(MISSING_GLOB_SOURCE, <<globs[i]>>)],
              <<>>, "Ignore")

(***************************************************************************)
(* GlobSource, GlobWithSource, SingleExpansionResult.                      *)
(***************************************************************************)
ParsedInput(input) == [kind |-> "ParsedInput", of |-> input]

ParentGlob(glob) == [kind |-> "ParentGlob", of |-> glob]

GlobWithSource(path_glob, source) == [path_glob |-> path_glob, source |-> source]

\* PathGlobIncludeEntry::to_sourced_globs
to_sourced_globs(entry) ==
  [i \in 1..Len(entry.globs) |-> GlobWithSource(entry.globs[i], ParsedInput(entry.input))]

SingleExpansionResult(sourced_glob, path_stats, globs) ==
  [sourced_glob |-> sourced_glob, path_stats |-> path_stats, globs |-> globs]

(***************************************************************************)
(* future::join_all over results that are already known: the first error   *)
(* in index order if there is one (an error ends the join although another  *)
(* element never completes), else no completion if an element never         *)
(* completes, else the list of values.                                      *)
(***************************************************************************)
JoinAll(results) ==
  IF \E i \in 1..Len(results) : results[i].tag = "err"
  THEN results[CHOOSE i \in 1..Len(results) :
                 /\ results[i].tag = "err"
                 /\ \A j \in 1..(i - 1) : results[j].tag # "err"]
  ELSE IF \E i \in 1..Len(results) : results[i].tag = "hang" THEN Hang
  ELSE Ok([i \in 1..Len(results) |-> results[i].val])

(***************************************************************************)
(* PathGlobsExpansion: todo, completed (an IndexMap, here the sequence of  *)
(* its entries in insertion order, each with its key), outputs (an         *)
(* IndexSet, here a sequence).                                             *)
(***************************************************************************)
Matched == "SuccessfullyMatchedSomeFiles"

Unmatched == "DidNotMatchAnyFiles"

GlobExpansionCacheEntry(key, globs, matched, sources) ==
  [key |-> key, globs |-> globs, matched |-> matched, sources |-> sources]

PathGlobsExpansion(todo, completed, outputs) ==
  [todo |-> todo, completed |-> completed, outputs |-> outputs]

Keys(completed) == {completed[i].key : i \in 1..Len(completed)}

IndexOfKey(completed, glob) == CHOOSE i \in 1..Len(completed) : completed[i].key = glob

\* a faulty push: only the first source of an entry is kept
PushSourceOnce(completed, glob, source) ==
  LET i == IndexOfKey(completed, glob) IN
  IF completed[i].sources # <<>> THEN completed
  ELSE [completed EXCEPT ![i].sources = Append(@, source)]

\* entry.sources.push(source) on the entry of the glob (lines 922-923, 930)
PushSource(completed, glob, source) ==
  LET i == IndexOfKey(completed, glob) IN
  [completed EXCEPT ![i].sources = Append(@, source)]

\* a faulty extend, as of a Vec: every element is appended
VecExtend(outputs, path_stats) == outputs \o path_stats

\* a faulty extend: an element is appended unless an element with the same
\* canonical Stat path is already there
RECURSIVE IndexSetExtendByStat(_, _)
IndexSetExtendByStat(outputs, path_stats) ==
  IF path_stats = <<>> THEN outputs
  ELSE With(IF \E i \in 1..Len(outputs) : outputs[i].stat.path = Head(path_stats).stat.path
            THEN outputs
            ELSE Append(outputs, Head(path_stats)),
            LAMBDA extended : IndexSetExtendByStat(extended, Tail(path_stats)))

\* a faulty extend: the new elements are put before the elements there are
IndexSetPrepend(outputs, path_stats) ==
  SelectSeq(path_stats, LAMBDA ps : ps \notin Range(outputs)) \o outputs

\* IndexSet::extend: each element is appended unless it is already there
RECURSIVE IndexSetExtend(_, _)
IndexSetExtend(outputs, path_stats) ==
  IF path_stats = <<>> THEN outputs
  ELSE With(IF Head(path_stats) \in Range(outputs) THEN outputs
            ELSE Append(outputs, Head(path_stats)),
            LAMBDA extended : IndexSetExtend(extended, Tail(path_stats)))

\* the for loop over the children of one result (lines 927-937)
RECURSIVE EnqueueChildren(_, _, _)
EnqueueChildren(expansion, source_for_children, globs) ==
  IF globs = <<>> THEN expansion
  ELSE With(IF Head(globs) \in Keys(expansion.completed)
            THEN [expansion EXCEPT
                    !.completed = PushSource(@, Head(globs), source_for_children)]
            ELSE [expansion EXCEPT
                    !.todo = Append(@, GlobWithSource(Head(globs), source_for_children))],
            LAMBDA next : EnqueueChildren(next, source_for_children, Tail(globs)))

\* a faulty insertion: the new entry is put before the entries there are
InsertFirst(completed, entry) == <<entry>> \o completed

\* a faulty insertion: the new entry takes the place of the last entry
InsertOverLast(completed, entry) ==
  IF completed = <<>> THEN <<entry>> ELSE Append(Front(completed), entry)

\* IndexMap: a new key is inserted behind the keys there are
InsertEntry(completed, entry) == Append(completed, entry)

\* the body of the for loop over the results of a round (lines 902-937)
MergeResult(expansion, exp) ==
  With(IF exp.sourced_glob.path_glob \in Keys(expansion.completed)
       THEN expansion.completed
       ELSE InsertEntry(expansion.completed,
                   GlobExpansionCacheEntry(exp.sourced_glob.path_glob, exp.globs,
                     IF exp.path_stats = <<>> THEN Unmatched ELSE Matched, <<>>)),
       LAMBDA inserted :
         With(PathGlobsExpansion(
                expansion.todo,
                PushSource(inserted, exp.sourced_glob.path_glob, exp.sourced_glob.source),
                IndexSetExtend(expansion.outputs, exp.path_stats)),
              LAMBDA merged :
                EnqueueChildren(merged, ParentGlob(exp.sourced_glob.path_glob),
                                exp.globs)))

\* the results of a round are merged one after another, in their order in
\* the list that join_all yields
RECURSIVE MergeResults(_, _)
MergeResults(expansion, single_expansion_results) ==
  IF single_expansion_results = <<>> THEN expansion
  ELSE With(MergeResult(expansion, Head(single_expansion_results)),
            LAMBDA merged : MergeResults(merged, Tail(single_expansion_results)))

\* todo.drain(..) leaves todo empty before the results are merged
MergeRound(expansion, single_expansion_results) ==
  With([expansion EXCEPT !.todo = <<>>],
       LAMBDA drained : MergeResults(drained, single_expansion_results))

(***************************************************************************)
(* The strict-match back-propagation (lines 958-1040).                     *)
(***************************************************************************)
\* the state of the walk: completed, inputs_with_matches, and whether an
\* unwrap of completed.get / get_mut found no entry
WalkState(completed, inputs_with_matches, panicked) ==
  [completed |-> completed, inputs_with_matches |-> inputs_with_matches,
   panicked |-> panicked]

RECURSIVE MarkMatched(_, _)
MarkMatched(w, new_matched_source_globs) ==
  IF new_matched_source_globs = <<>> THEN w
  ELSE IF Head(new_matched_source_globs) \notin Keys(w.completed)
       THEN [w EXCEPT !.panicked = TRUE]
  ELSE With([w EXCEPT !.completed[IndexOfKey(w.completed,
                                               Head(new_matched_source_globs))].matched
                        = Matched],
            LAMBDA marked : MarkMatched(marked, Tail(new_matched_source_globs)))

\* the sources of a matched entry: its inputs are recorded, its parent
\* globs are marked
MarkSources(w, sources) ==
  With([w EXCEPT !.inputs_with_matches =
          @ \cup {sources[k].of :
                    k \in {j \in 1..Len(sources) : sources[j].kind = "ParsedInput"}}],
       LAMBDA recorded :
         With(SelectSeq(sources, LAMBDA src : src.kind = "ParentGlob"),
              LAMBDA parents :
                MarkMatched(recorded, [k \in 1..Len(parents) |-> parents[k].of])))

\* one iteration of the loop over all_globs, for the entry at index i
WalkStep(w, i) ==
  IF w.completed[i].matched = Unmatched THEN w
  ELSE MarkSources(w, w.completed[i].sources)

\* a faulty walk, in insertion order: from the first entry to index i
RECURSIVE WalkUp(_, _, _)
WalkUp(w, k, i) ==
  IF k > i \/ w.panicked THEN w
  ELSE With(WalkStep(w, k), LAMBDA walked : WalkUp(walked, k + 1, i))

WalkForward(w, i) == WalkUp(w, 1, i)

\* completed.keys().rev(): from the last inserted entry to the first
RECURSIVE Walk(_, _)
Walk(w, i) ==
  IF i = 0 \/ w.panicked THEN w
  ELSE With(WalkStep(w, i), LAMBDA walked : Walk(walked, i - 1))

BackPropagate(completed) == Walk(WalkState(completed, {}, FALSE), Len(completed))

Returned(result, warned) == [result |-> result, warned |-> warned]

\* lines 1020-1040: the unmatched inputs fail the expansion or are logged
FinishUnmatched(path_globs, match_results, non_matching_inputs) ==
  IF non_matching_inputs # <<>> THEN
    IF should_throw_on_error(path_globs.strict_match_behavior)
    THEN Returned([tag |-> "err", val |-> Error("strict", non_matching_inputs)], <<>>)
    ELSE Returned(Ok(match_results), non_matching_inputs)
  ELSE Returned(Ok(match_results), <<>>)

\* a faulty filter: an input without globs is not reported
FinishWalkedWithGlobs(path_globs, match_results, w) ==
  IF w.panicked THEN Returned(Err("panic"), <<>>)
  ELSE With(SelectSeq(path_globs.include,
                      LAMBDA entry : entry.globs # <<>>
                                       /\ entry.input \notin w.inputs_with_matches),
            LAMBDA unmatched :
              FinishUnmatched(path_globs, match_results,
                              [i \in 1..Len(unmatched) |-> unmatched[i].input]))

\* lines 1013-1018: the inputs that the walk did not mark
FinishWalked(path_globs, match_results, w) ==
  IF w.panicked THEN Returned(Err("panic"), <<>>)
  ELSE With(SelectSeq([i \in 1..Len(path_globs.include) |-> path_globs.include[i].input],
                      LAMBDA parsed_source : parsed_source \notin w.inputs_with_matches),
            LAMBDA non_matching_inputs :
              FinishUnmatched(path_globs, match_results, non_matching_inputs))

\* the and_then closure of expand (lines 947-1043): [result, warned]
Finish(path_globs, final_expansion) ==
  IF should_check_glob_matches(path_globs.strict_match_behavior)
  THEN With(BackPropagate(final_expansion.completed),
            LAMBDA w : FinishWalked(path_globs, final_expansion.outputs, w))
  ELSE Returned(Ok(final_expansion.outputs), <<>>)

(***************************************************************************)
(* VFS: canonicalize, directory_listing, expand_single, expand.            *)
(* `links` is the set of links being canonicalized around the call: a      *)
(* canonicalize that is entered for a link of that set repeats the         *)
(* computation it is part of, and so never completes.  `rounds` bounds the *)
(* rounds of the loop of expand that the model follows.                    *)
(***************************************************************************)
RECURSIVE canonicalize(_, _, _, _)
RECURSIVE directory_listing(_, _, _, _, _, _)
RECURSIVE expand_single(_, _, _, _)
RECURSIVE ExpandLoop(_, _, _, _, _)
RECURSIVE expand(_, _, _, _)

\* the dest_path of a link as the file-spec handed to PathGlob::create
EscapedDest(dest_path) == [i \in 1..Len(dest_path) |-> Escape(dest_path[i])]

\* a link destination that cannot be parsed as PathGlobs is broken
LinkGlobs(created) == IF created.tag = "err" THEN <<>> ELSE created.val

\* a faulty last closure of canonicalize: the PathStat of the destination
\* is handed on under the path of the destination
CanonicalizedKeepPath(symbolic_path, path_stats) ==
  IF path_stats.tag # "ok" THEN path_stats
  ELSE IF path_stats.val = <<>> THEN Ok(<<>>)
  ELSE Ok(<< Last(path_stats.val) >>)

\* the last closure of canonicalize (lines 791-797): Ok(<<>>) is None,
\* Ok(<<ps>>) is Some(ps)
Canonicalized(symbolic_path, path_stats) ==
  IF path_stats.tag # "ok" THEN path_stats
  ELSE IF path_stats.val = <<>> THEN Ok(<<>>)
  ELSE Ok(<< PathStatOf(symbolic_path, Last(path_stats.val).stat) >>)

\* the closures of canonicalize after read_link (lines 776-790)
CanonicalizeDest(id, symbolic_path, link, links, dest_path) ==
  IF dest_path.tag = "err" THEN dest_path
  ELSE With(from_globs(LinkGlobs(PathGlobCreate(<< EscapedDest(dest_path.val) >>))),
            LAMBDA path_globs :
              With(expand(id, path_globs, links \cup {link.path}, Len(dest_path.val) + 1),
                   LAMBDA path_stats : Canonicalized(symbolic_path, path_stats)))

\* a faulty canonicalize: a link that is being canonicalized around the
\* call is taken for a broken link
canonicalize_once(id, symbolic_path, link, links) ==
  IF link.path \in links THEN Ok(<<>>)
  ELSE With(ReadLink(id, link),
            LAMBDA dest_path : CanonicalizeDest(id, symbolic_path, link, links, dest_path))

\* VFS::canonicalize
canonicalize(id, symbolic_path, link, links) ==
  IF link.path \in links THEN Hang
  ELSE With(ReadLink(id, link),
            LAMBDA dest_path : CanonicalizeDest(id, symbolic_path, link, links, dest_path))

\* a faulty closure of directory_listing: the local excludes are not asked
ListingEntryContextOnly(id, stat_symbolic_path, stat, exclude, links) ==
  IF ContextIsIgnored(id, stat) THEN Ok(<<>>)
  ELSE IF stat.kind = "Link" THEN canonicalize(id, stat_symbolic_path, stat, links)
  ELSE Ok(<< PathStatOf(stat_symbolic_path, stat) >>)

\* a faulty closure of directory_listing: the local excludes are asked
\* about the destination of a link as well
ExcludeDestination(exclude, path_stat) ==
  IF path_stat.tag = "ok" /\ path_stat.val # <<>> /\ IsIgnored(exclude, path_stat.val[1].stat)
  THEN Ok(<<>>)
  ELSE path_stat

ListingEntryByDestination(id, stat_symbolic_path, stat, exclude, links) ==
  IF ContextIsIgnored(id, stat) \/ IsIgnored(exclude, stat) THEN Ok(<<>>)
  ELSE IF stat.kind = "Link"
  THEN With(canonicalize(id, stat_symbolic_path, stat, links),
            LAMBDA path_stat : ExcludeDestination(exclude, path_stat))
  ELSE Ok(<< PathStatOf(stat_symbolic_path, stat) >>)

\* the closure of directory_listing that maps one matched Stat (lines 835-853)
ListingEntry(id, stat_symbolic_path, stat, exclude, links) ==
  IF ContextIsIgnored(id, stat) \/ IsIgnored(exclude, stat) THEN Ok(<<>>)
  ELSE IF stat.kind = "Link" THEN canonicalize(id, stat_symbolic_path, stat, links)
  ELSE Ok(<< PathStatOf(stat_symbolic_path, stat) >>)

\* the last closure of directory_listing (lines 857-860)
ListingJoined(joined) == IF joined.tag # "ok" THEN joined ELSE Ok(FlattenSeq(joined.val))

\* the join_all of directory_listing over the matched Stats
ListingMatched(id, symbolic_path, exclude, links, matched) ==
  With([i \in 1..Len(matched) |->
          ListingEntry(id, Append(symbolic_path, Last(matched[i].path)), matched[i],
                       exclude, links)],
       LAMBDA path_stats : With(JoinAll(path_stats), ListingJoined))

\* a faulty closure of directory_listing: a scandir that failed counts as
\* an empty listing
ListingScannedLenient(id, symbolic_path, wildcard, exclude, links, dir_listing) ==
  IF dir_listing.tag = "err" THEN Ok(<<>>)
  ELSE With(SelectSeq(dir_listing.val, LAMBDA stat : Matches(wildcard, Last(stat.path))),
            LAMBDA matched : ListingMatched(id, symbolic_path, exclude, links, matched))

\* the closure of directory_listing on the result of scandir (lines 814-856)
ListingScanned(id, symbolic_path, wildcard, exclude, links, dir_listing) ==
  IF dir_listing.tag = "err" THEN dir_listing
  ELSE With(SelectSeq(dir_listing.val, LAMBDA stat : Matches(wildcard, Last(stat.path))),
            LAMBDA matched : ListingMatched(id, symbolic_path, exclude, links, matched))

\* VFS::directory_listing
directory_listing(id, canonical_dir, symbolic_path, wildcard, exclude, links) ==
  With(Scandir(id, canonical_dir),
       LAMBDA dir_listing :
         ListingScanned(id, symbolic_path, wildcard, exclude, links, dir_listing))

\* collect::<Result<Vec<_>, E>>() and the flat_map of expand_single: the
\* first error, or all the globs
CollectGlobs(parsed) ==
  IF \E i \in 1..Len(parsed) : parsed[i].tag = "err"
  THEN parsed[CHOOSE i \in 1..Len(parsed) :
                /\ parsed[i].tag = "err"
                /\ \A j \in 1..(i - 1) : parsed[j].tag # "err"]
  ELSE Ok(FlattenSeq([i \in 1..Len(parsed) |-> parsed[i].val]))

\* a faulty expand_single: a leading "**" of the remainder is used up by
\* the first directory level
ParseChildrenOneLevel(dirs, remainder) ==
  With([i \in 1..Len(dirs) |->
          parse_globs(dirs[i].stat.path, dirs[i].path,
                      IF Head(remainder) = DOUBLE_STAR THEN Tail(remainder) ELSE remainder)],
       CollectGlobs)

\* a faulty expand_single: the child globs list the root again instead of
\* the matched directory
ParseChildrenAtRoot(dirs, remainder) ==
  With([i \in 1..Len(dirs) |-> parse_globs(<<>>, dirs[i].path, remainder)],
       CollectGlobs)

\* a faulty expand_single: the child globs list the directory under the
\* name by which it was reached
ParseChildrenSymbolic(dirs, remainder) ==
  With([i \in 1..Len(dirs) |-> parse_globs(dirs[i].path, dirs[i].path, remainder)],
       CollectGlobs)

\* the parse_globs calls of expand_single for the matched Dirs (lines 1070-1079)
ParseChildren(dirs, remainder) ==
  With([i \in 1..Len(dirs) |-> parse_globs(dirs[i].stat.path, dirs[i].path, remainder)],
       CollectGlobs)

\* a faulty filter_map: the matched files get child globs as well
ChildGlobsForAll(path_stats, remainder) == ParseChildren(path_stats, remainder)

\* the child globs of a DirWildcard: those of its matched Dirs
ChildGlobs(path_stats, remainder) ==
  With(SelectSeq(path_stats, LAMBDA ps : ps.kind = "Dir"),
       LAMBDA dirs : ParseChildren(dirs, remainder))

\* the result of a DirWildcard: no PathStats, the child globs
DirWildcardResult(sourced_glob, path_globs) ==
  IF path_globs.tag = "err" THEN path_globs
  ELSE Ok(SingleExpansionResult(sourced_glob, <<>>, path_globs.val))

\* the closures of expand_single on the result of directory_listing
SingleResult(sourced_glob, path_stats) ==
  IF path_stats.tag # "ok" THEN path_stats
  ELSE IF sourced_glob.path_glob.kind = "Wildcard"
  THEN Ok(SingleExpansionResult(sourced_glob, path_stats.val, <<>>))
  ELSE With(ChildGlobs(path_stats.val, sourced_glob.path_glob.remainder),
            LAMBDA path_globs : DirWildcardResult(sourced_glob, path_globs))

\* VFS::expand_single
expand_single(id, sourced_glob, exclude, links) ==
  With(directory_listing(id, sourced_glob.path_glob.canonical_dir,
                         sourced_glob.path_glob.symbolic_path,
                         sourced_glob.path_glob.wildcard, exclude, links),
       LAMBDA path_stats : SingleResult(sourced_glob, path_stats))

\* the todo of the initial PathGlobsExpansion (lines 880-883)
InitialTodo(include) == FlattenSeq([i \in 1..Len(include) |-> to_sourced_globs(include[i])])

\* Loop::Break or Loop::Continue (lines 941-945)
LoopNext(id, next, exclude, links, rounds) ==
  IF next.todo = <<>> THEN Ok(next)
  ELSE ExpandLoop(id, next, exclude, links, rounds - 1)

\* round.map of the loop (lines 899-946) on the joined results of the round
LoopRound(id, expansion, exclude, links, rounds, round) ==
  IF round.tag # "ok" THEN round
  ELSE With(MergeRound(expansion, round.val),
            LAMBDA next : LoopNext(id, next, exclude, links, rounds))

\* the loop_fn of expand, run to its end: the final PathGlobsExpansion
ExpandLoop(id, expansion, exclude, links, rounds) ==
  IF rounds = 0 THEN Hang
  ELSE With([i \in 1..Len(expansion.todo) |->
               expand_single(id, expansion.todo[i], exclude, links)],
            LAMBDA futures :
              With(JoinAll(futures),
                   LAMBDA round : LoopRound(id, expansion, exclude, links, rounds, round)))

ExpandFinal(path_globs, final_expansion) ==
  IF final_expansion.tag # "ok" THEN final_expansion
  ELSE Finish(path_globs, final_expansion.val).result

\* VFS::expand, as a function of its inputs
expand(id, path_globs, links, rounds) ==
  IF path_globs.include = <<>> THEN Ok(<<>>)
  ELSE With(PathGlobsExpansion(InitialTodo(path_globs.include), <<>>, <<>>),
            LAMBDA init :
              With(ExpandLoop(id, init, path_globs.exclude, links, rounds),
                   LAMBDA final_expansion : ExpandFinal(path_globs, final_expansion)))

(***************************************************************************)
(* PathStatGetter::path_stats for PosixFS: the future of one path.         *)
(***************************************************************************)
\* faulty closures of path_stats: a not-found error fails the call as every
\* other error does
PathStatOfStatStrict(id, stat_result) ==
  IF stat_result.tag = "err" THEN stat_result
  ELSE IF stat_result.val.kind = "Link"
       THEN canonicalize(id, stat_result.val.path, stat_result.val, {})
       ELSE Ok(<< PathStatOf(stat_result.val.path, stat_result.val) >>)

\* Ok(<<>>) is None, Ok(<<ps>>) is Some(ps)
PathStatOfStat(id, stat_result) ==
  IF stat_result.tag = "err"
  THEN IF stat_result.val.kind = "notfound" THEN Ok(<<>>) ELSE stat_result
  ELSE IF stat_result.val.kind = "Link"
       THEN canonicalize(id, stat_result.val.path, stat_result.val, {})
       ELSE Ok(<< PathStatOf(stat_result.val.path, stat_result.val) >>)

PathStatFor(id, path) ==
  With(StatPath(id, path), LAMBDA stat_result : PathStatOfStat(id, stat_result))

(***************************************************************************)
(* The inputs the model draws from.                                        *)
(***************************************************************************)
\* the file-specs drawn for a filesystem: three for every filesystem, and
\* those that name entries of its tree
FileSpecs(id) ==
  { <<"*">>, <<"**">>, <<"nonexistent">> } \cup
  CASE id = "test" -> { <<"dir", "*">>, <<"dir", "..", "*">> }
    [] id = "ignore" -> { <<"symlink">>, <<".">> }
    [] id = "abc" -> { <<"abc", "**">>, <<"abc", "**", "z">>, <<"abc", "**", "..", "x">> }
    [] id = "secret" -> { <<"**", "*.txt">>, <<"**", "**", "*.txt">> }
    [] id = "cycle" -> { <<"dir", "*">>, <<"dir", "**">>, <<"dir", "..", "..", "*">> }
    [] id = "esc" -> { <<"dir", "*">>, <<"dir", "..", "..", "*">>, <<"..", "outside">>, <<".">> }
    [] id = "abs" -> { <<"dir", "*">>, <<"dir", "via">> }
    [] id = "other" -> { <<"dir", "*">>, <<"f">> }
    [] id = "up" -> { <<"t", "u", "*">>, <<"t", "*">>, <<>> }
    [] id = "deep" -> { <<"deep", "..", "..", "*">>, <<"deep", "*">> }

\* the exclude lists drawn for a filesystem: none, and one that names
\* entries of its tree
ExcludeLists(id) ==
  { <<>>,
    CASE id \in {"test", "ignore"} -> << <<"executable_file">> >>
      [] id = "abc" -> << <<"y">> >>
      [] id = "secret" -> << <<"secret", "**">> >>
      [] id = "cycle" -> << <<"a">>, <<"b">> >>
      [] id = "up" -> << <<"t", "u">> >>
      [] OTHER -> << <<"f">> >> }

\* the paths drawn for path_stats: the entries of the tree, a name that no
\* entry has, and for the test tree a name below a regular file and the
\* name of a link below a link to its directory
RequestPaths(id) ==
  DOMAIN FsEntries(id) \cup { <<"doesnotexist">> } \cup
  IF id = "test"
  THEN { <<"regular_file", "x">>, <<"dir_symlink", "recursive_symlink">> }
  ELSE {}

(***************************************************************************)
(* The state machine: one client of one PosixFS.                           *)
(***************************************************************************)
VARIABLES
  vfs,         \* the filesystem under the PosixFS (never modified)
  pc,          \* "idle", "created", "rejected", "round", "stat", "done"
  filespecs,   \* the include list handed to PathGlobs::create
  path_globs,  \* the PathGlobs value
  expansion,   \* the PathGlobsExpansion of the running expand
  calls,       \* the futures of the current batch: what each was made for (a
               \* GlobWithSource drained from todo, a path), and its outcome
  paths,       \* the paths handed to path_stats
  slots,       \* join_all: per future of the batch its result, or pending
  round,       \* the number of the current round
  result,      \* what the last operation returned
  warned,      \* the unmatched inputs of the warning the last expand logged
  run,         \* 1 for the first expand of the PathGlobs, 2 for the second
  first        \* what the first expand returned

vars == << vfs, pc, filespecs, path_globs, expansion, calls, paths, slots, round,
           result, warned, run, first >>

Pending == [tag |-> "pending", val |-> "none"]

NoResult == [tag |-> "none", val |-> "none"]

NoPathGlobs == PathGlobsOf(<<>>, <<>>, "none")

EmptyExpansion == PathGlobsExpansion(<<>>, <<>>, <<>>)

\* a future and the result it completes with; the filesystem is not
\* modified, so the outcome is the one computed when the future is made
Future(arg, outcome) == [arg |-> arg, outcome |-> outcome]

\* the batch of expand_single futures of a round (lines 890-898)
SubmitRound(id, todo, exclude) ==
  [i \in 1..Len(todo) |->
     With(expand_single(id, todo[i], exclude, {}), LAMBDA outcome : Future(todo[i], outcome))]

Init ==
  /\ vfs \in FsIds
  /\ pc = "idle"
  /\ filespecs = <<>>
  /\ path_globs = NoPathGlobs
  /\ expansion = EmptyExpansion
  /\ calls = <<>>
  /\ paths = <<>>
  /\ slots = <<>>
  /\ round = 0
  /\ result = NoResult
  /\ warned = <<>>
  /\ run = 1
  /\ first = NoResult

Created(created) ==
  IF created.tag = "err"
  THEN /\ pc' = "rejected"
       /\ result' = created
       /\ path_globs' = path_globs
  ELSE /\ pc' = "created"
       /\ result' = result
       /\ path_globs' = created.val

\* PathGlobs::create(include, exclude, strict_match_behavior)
Create(include, exclude, strict_match_behavior) ==
  /\ pc = "idle"
  /\ filespecs' = include
  /\ \E created \in {PathGlobsCreate(include, exclude, strict_match_behavior)} :
       Created(created)
  /\ UNCHANGED << vfs, expansion, calls, paths, slots, round, warned, run, first >>

\* a faulty join_all: a result is stored in the first free slot, in the
\* order in which the futures complete
JoinStoreArrival(slots_, i, r) ==
  [slots_ EXCEPT ![CHOOSE k \in 1..Len(slots_) :
                     /\ slots_[k].tag = "pending"
                     /\ \A j \in 1..(k - 1) : slots_[j].tag # "pending"] = r]

\* join_all stores the result of its i-th future in its i-th slot
JoinStore(slots_, i, r) == [slots_ EXCEPT ![i] = r]

\* a faulty join_all: the results of a batch are never yielded
JoinNeverReady(slots_) == FALSE

\* join_all is ready when every future has completed
JoinReady(slots_) == \A i \in 1..Len(slots_) : slots_[i].tag = "ok"

\* the first lines of expand and the first iteration of loop_fn: an empty
\* include returns at once, else todo is drained into a batch of futures
ExpandStart ==
  /\ pc = "created"
  /\ IF path_globs.include = <<>>
     THEN /\ pc' = "done"
          /\ result' = Ok(<<>>)
          /\ UNCHANGED << expansion, calls, slots, round >>
     ELSE /\ pc' = "round"
          /\ result' = NoResult
          /\ expansion' = EmptyExpansion
          /\ \E todo \in {InitialTodo(path_globs.include)} :
               /\ calls' = SubmitRound(vfs, todo, path_globs.exclude)
               /\ slots' = [i \in 1..Len(todo) |-> Pending]
          /\ round' = 1
  /\ warned' = <<>>
  /\ UNCHANGED << vfs, filespecs, path_globs, paths, run, first >>

\* a faulty round: the result of a future is merged as soon as the future
\* completes
SingleCompletesAndMerges(i) ==
  /\ pc = "round"
  /\ i \in 1..Len(slots)
  /\ slots[i].tag = "pending"
  /\ calls[i].outcome.tag # "hang"
  /\ slots' = JoinStore(slots, i, calls[i].outcome)
  /\ expansion' = IF calls[i].outcome.tag = "ok"
                  THEN MergeResult(expansion, calls[i].outcome.val)
                  ELSE expansion
  /\ UNCHANGED << vfs, pc, filespecs, path_globs, calls, paths, round,
                  result, warned, run, first >>

\* one expand_single future of the round completes
SingleCompletes(i) ==
  /\ pc = "round"
  /\ i \in 1..Len(slots)
  /\ slots[i].tag = "pending"
  /\ calls[i].outcome.tag # "hang"
  /\ slots' = JoinStore(slots, i, calls[i].outcome)
  /\ UNCHANGED << vfs, pc, filespecs, path_globs, expansion, calls, paths, round,
                  result, warned, run, first >>

\* join_all fails with the error of a future that failed, and with it expand
RoundFails(i) ==
  /\ pc = "round"
  /\ i \in 1..Len(slots)
  /\ slots[i].tag = "err"
  /\ pc' = "done"
  /\ result' = slots[i]
  /\ UNCHANGED << vfs, filespecs, path_globs, expansion, calls, paths, slots, round,
                  warned, run, first >>

\* Loop::Break: the and_then closure returns from expand
ExpandReturns(merged, finished) ==
  /\ pc' = "done"
  /\ expansion' = merged
  /\ result' = finished.result
  /\ warned' = finished.warned
  /\ UNCHANGED << calls, slots, round >>

\* Loop::Continue: the next iteration drains todo into the next batch
NextRound(merged) ==
  /\ round < MaxRounds
  /\ expansion' = [merged EXCEPT !.todo = <<>>]
  /\ calls' = SubmitRound(vfs, merged.todo, path_globs.exclude)
  /\ slots' = [i \in 1..Len(merged.todo) |-> Pending]
  /\ round' = round + 1
  /\ UNCHANGED << pc, result, warned >>

\* the end of the closure of round.map (lines 941-945)
Merged(merged) ==
  IF merged.todo = <<>>
  THEN \E finished \in {Finish(path_globs, merged)} : ExpandReturns(merged, finished)
  ELSE NextRound(merged)

\* the closure of round.map (lines 899-946), and what follows it at once:
\* the next iteration of loop_fn, or the and_then closure
RoundMerges ==
  /\ pc = "round"
  /\ JoinReady(slots)
  /\ \E merged \in {MergeRound(expansion, [i \in 1..Len(slots) |-> slots[i].val])} :
       Merged(merged)
  /\ UNCHANGED << vfs, filespecs, path_globs, paths, run, first >>

\* the same PathGlobs are expanded a second time over the same filesystem
ExpandAgain ==
  /\ pc = "done"
  /\ path_globs # NoPathGlobs
  /\ run = 1
  /\ run' = 2
  /\ first' = result
  /\ pc' = "created"
  /\ result' = NoResult
  /\ UNCHANGED << vfs, filespecs, path_globs, expansion, calls, paths, slots, round, warned >>

\* path_stats(paths): one future per path
PathStatsStart(requested) ==
  /\ pc = "idle"
  /\ pc' = "stat"
  /\ paths' = requested
  /\ calls' = [i \in 1..Len(requested) |->
                With(PathStatFor(vfs, requested[i]),
                     LAMBDA outcome : Future(requested[i], outcome))]
  /\ slots' = [i \in 1..Len(requested) |-> Pending]
  /\ UNCHANGED << vfs, filespecs, path_globs, expansion, round, result, warned, run, first >>

PathStatCompletes(i) ==
  /\ pc = "stat"
  /\ i \in 1..Len(slots)
  /\ slots[i].tag = "pending"
  /\ calls[i].outcome.tag # "hang"
  /\ slots' = JoinStore(slots, i, calls[i].outcome)
  /\ UNCHANGED << vfs, pc, filespecs, path_globs, expansion, calls, paths, round,
                  result, warned, run, first >>

PathStatsFails(i) ==
  /\ pc = "stat"
  /\ i \in 1..Len(slots)
  /\ slots[i].tag = "err"
  /\ pc' = "done"
  /\ result' = slots[i]
  /\ UNCHANGED << vfs, filespecs, path_globs, expansion, calls, paths, slots, round,
                  warned, run, first >>

PathStatsJoins ==
  /\ pc = "stat"
  /\ JoinReady(slots)
  /\ pc' = "done"
  /\ result' = Ok([i \in 1..Len(slots) |-> slots[i].val])
  /\ UNCHANGED << vfs, filespecs, path_globs, expansion, calls, paths, slots, round,
                  warned, run, first >>

Next ==
  \/ \E include \in SeqsUpTo(FileSpecs(vfs), MaxInclude), exclude \in ExcludeLists(vfs),
        strict_match_behavior \in StrictGlobMatching :
       Create(include, exclude, strict_match_behavior)
  \/ ExpandStart
  \/ \E i \in 1..Len(slots) : SingleCompletes(i)
  \/ \E i \in 1..Len(slots) : RoundFails(i)
  \/ RoundMerges
  \/ ExpandAgain
  \/ \E requested \in SeqsUpTo(RequestPaths(vfs), MaxPaths) : PathStatsStart(requested)
  \/ \E i \in 1..Len(slots) : PathStatCompletes(i)
  \/ \E i \in 1..Len(slots) : PathStatsFails(i)
  \/ PathStatsJoins

Spec == Init /\ [][Next]_vars

\* the steps that the executor takes on its own: a future of the batch
\* completes, join_all fails or yields the results of the round
Progress ==
  \/ \E i \in 1..Len(slots) : SingleCompletes(i)
  \/ \E i \in 1..Len(slots) : RoundFails(i)
  \/ RoundMerges

\* the executor polls a future that can make progress until it completes
FairSpec == Spec /\ WF_vars(Progress)

(***************************************************************************)
(* What the client sees.                                                   *)
(***************************************************************************)
\* expand has returned (a path_stats call leaves path_globs untouched)
ExpandReturned == pc = "done" /\ path_globs # NoPathGlobs

\* an expand is running or has returned: calls holds expand_single futures
Expanding == pc = "round" \/ ExpandReturned

PathStatsReturned == pc = "done" /\ path_globs = NoPathGlobs

\* some future of the last batch failed
SomeCallFailed == \E i \in 1..Len(calls) : calls[i].outcome.tag = "err"

(***************************************************************************)
(* Reference semantics, written without the engine: what a path resolves   *)
(* to in the tree, and which paths a file-spec denotes.                    *)
(***************************************************************************)
Links(id) == {p \in DOMAIN FsEntries(id) : FsEntries(id)[p].kind = "link"}

\* what the link at path l leads to
LinkTarget(id, l) ==
  Resolve(id, Front(l), FsEntries(id)[l].target, Cardinality(DOMAIN FsEntries(id)))

\* the link leads to an existing file or directory below the root
ResolvesInside(id, l) ==
  /\ LinkTarget(id, l).tag = "at"
  /\ LinkTarget(id, l).path \in DOMAIN FsEntries(id)
  /\ FsEntries(id)[LinkTarget(id, l).path].kind \in {"file", "dir"}

\* the PathStat of a resolved link: its own name, the Stat of what it leads to
ResolvedPathStat(id, symbolic, l) ==
  PathStatOf(symbolic,
             StatInternal(LinkTarget(id, l).path, FsEntries(id)[LinkTarget(id, l).path]).val)

\* the links with a relative target that does not exist
BrokenLinks(id) == {l \in Links(id) : LinkTarget(id, l).tag \in {"missing", "notdir"}}

\* no chain of links comes back to a link of the chain, and no link leads
\* to itself or to a directory it lies in
NoSymlinkCycle(id) ==
  \A l \in Links(id) :
    /\ LinkTarget(id, l).tag # "loop"
    /\ LinkTarget(id, l).tag = "at" => ~IsPrefix(LinkTarget(id, l).path, l)

\* a tree of files and directories only
LinkFree(id) == \A p \in DOMAIN FsEntries(id) : FsEntries(id)[p].kind \in {"file", "dir"}

\* the paths that a file-spec denotes: "**" stands for any number of
\* levels, none included, and a trailing "**" for everything inside
RECURSIVE GlobDenotes(_, _)
GlobDenotes(pattern, path) ==
  IF pattern = <<>> THEN path = <<>>
  ELSE IF Head(pattern) = "**" THEN
    IF Len(pattern) = 1 THEN path # <<>>
    ELSE \/ GlobDenotes(Tail(pattern), path)
         \/ path # <<>> /\ GlobDenotes(pattern, Tail(path))
  ELSE /\ path # <<>>
       /\ Matches(Head(pattern), Head(path))
       /\ GlobDenotes(Tail(pattern), Tail(path))

\* neither the entry nor a directory above it is ignored
Visible(id, exclude, p) ==
  \A k \in 1..Len(p) :
    /\ GitignoreMatched(exclude, SubSeq(p, 1, k)) # "ignore"
    /\ GitignoreMatched(FsIgnore(id), SubSeq(p, 1, k)) # "ignore"

\* the entries of a tree that a file-spec denotes and that are not ignored
Denoted(id, filespec, exclude) ==
  {p \in DOMAIN FsEntries(id) : GlobDenotes(filespec, p) /\ Visible(id, exclude, p)}

\* the entries that the whole include list denotes
DenotedByInclude ==
  UNION {Denoted(vfs, filespecs[k], path_globs.exclude) : k \in 1..Len(filespecs)}

\* the PathStats of entries of a tree without links
PathStatsAt(id, ps) == {PathStatOf(p, StatInternal(p, FsEntries(id)[p]).val) : p \in ps}

\* the globs derived from a set of globs: the set and, transitively, the
\* child globs recorded for its members
RECURSIVE DerivedFrom(_, _)
DerivedFrom(completed, globs) ==
  IF UNION {Range(completed[i].globs) :
              i \in {j \in 1..Len(completed) : completed[j].key \in globs}} \subseteq globs
  THEN globs
  ELSE DerivedFrom(completed,
         globs \cup UNION {Range(completed[i].globs) :
                             i \in {j \in 1..Len(completed) : completed[j].key \in globs}})

\* the listing of the glob itself was not empty
ProducedPathStats(completed, glob) ==
  \E i \in 1..Len(completed) : completed[i].key = glob /\ completed[i].matched = Matched

\* some glob derived from the include entry produced PathStats
InputMatched(completed, entry) ==
  \E glob \in DerivedFrom(completed, Range(entry.globs)) : ProducedPathStats(completed, glob)

\* the inputs that matched nothing, in include order
UnmatchedInputs(completed, include) ==
  [k \in 1..Len(SelectSeq(include, LAMBDA entry : ~InputMatched(completed, entry))) |->
     SelectSeq(include, LAMBDA entry : ~InputMatched(completed, entry))[k].input]

(***************************************************************************)
(* The claims.                                                             *)
(***************************************************************************)
\* C1: the sequence that expand returns contains no two equal PathStats,
\* whatever the PathGlobs and the filesystem, also when several inputs,
\* several globs of an input or a glob expanded twice yield the same one.
C1_NoDuplicateOutputs ==
  (ExpandReturned /\ result.tag = "ok") => NoDuplicates(result.val)

\* two futures of the last round produced the same PathStat, and expand
\* returned it
C1_Witness ==
  /\ ExpandReturned
  /\ result.tag = "ok"
  /\ \E i, j \in 1..Len(calls) :
       /\ i # j
       /\ \E ps \in Range(calls[i].outcome.val.path_stats) :
            ps \in Range(calls[j].outcome.val.path_stats) /\ ps \in Range(result.val)

\* C2 as stated: under mode Error, expand fails if and only if some input
\* matched nothing.
C2_AsStated ==
  (ExpandReturned /\ path_globs.strict_match_behavior = "Error") =>
    (result.tag = "err" <=>
       \E k \in 1..Len(path_globs.include) :
         ~InputMatched(expansion.completed, path_globs.include[k]))

\* C2, amended: under mode Error, an expand none of whose expand_single
\* calls fails returns an error if and only if some input matched nothing,
\* and the error names exactly the inputs that matched nothing, in include
\* order; an expand one of whose calls fails returns the error of a failed
\* call, which is no strict-match error.
C2_StrictErrorIffUnmatched ==
  (ExpandReturned /\ path_globs.strict_match_behavior = "Error") =>
    IF SomeCallFailed
    THEN /\ \E i \in 1..Len(calls) : result = calls[i].outcome
         /\ result.tag = "err"
         /\ result.val.kind # "strict"
    ELSE /\ result.tag = "err" <=>
              UnmatchedInputs(expansion.completed, path_globs.include) # <<>>
         /\ result.tag = "err" =>
              result.val = Error("strict",
                                 UnmatchedInputs(expansion.completed, path_globs.include))

\* under mode Error, of two inputs the first matched (through a child glob
\* of a later round) and the second did not, and expand names the second
C2_Witness ==
  /\ ExpandReturned
  /\ path_globs.strict_match_behavior = "Error"
  /\ ~SomeCallFailed
  /\ round > 1
  /\ Len(filespecs) = 2
  /\ result.tag = "err"
  /\ result.val.unmatched = << filespecs[2] >>

\* C3: under Warn and Ignore expand never fails because an input matched
\* nothing, and the PathStats of a successful expand are those that expand
\* returns under each other mode under which it succeeds.
C3_ModeNeverChangesOutputs ==
  ExpandReturned =>
    /\ path_globs.strict_match_behavior # "Error" =>
         (result.tag = "err" => result.val.kind # "strict" /\ SomeCallFailed)
    /\ result.tag = "ok" =>
         \A behavior \in StrictGlobMatching :
           expand(vfs, [path_globs EXCEPT !.strict_match_behavior = behavior],
                  {}, MaxRounds).tag = "ok"
           => expand(vfs, [path_globs EXCEPT !.strict_match_behavior = behavior],
                     {}, MaxRounds).val = result.val

\* under Warn an input matched nothing, was logged, and expand returned the
\* PathStats of the other input
C3_Witness ==
  /\ ExpandReturned
  /\ path_globs.strict_match_behavior = "Warn"
  /\ result.tag = "ok"
  /\ result.val # <<>>
  /\ warned # <<>>

\* C4 as stated: a link that is not ignored and leads, by relative links,
\* to an existing file or directory below the root yields a PathStat with
\* the name of the link and the Stat of that file or directory, from
\* path_stats and from a listing of expand; no PathStat denotes a link.
C4_AsStated ==
  /\ (PathStatsReturned /\ result.tag = "ok" /\ FsIgnore(vfs) = <<>>) =>
       \A i \in 1..Len(paths) :
         (paths[i] \in Links(vfs) /\ ResolvesInside(vfs, paths[i])) =>
           result.val[i] = << ResolvedPathStat(vfs, paths[i], paths[i]) >>
  /\ (Expanding /\ FsIgnore(vfs) = <<>>) =>
       \A i \in 1..Len(calls) :
         (calls[i].outcome.tag = "ok" /\ calls[i].arg.path_glob.kind = "Wildcard") =>
           \A l \in Links(vfs) :
             ( /\ Front(l) = calls[i].arg.path_glob.canonical_dir
               /\ Matches(calls[i].arg.path_glob.wildcard, Last(l))
               /\ ~IsIgnored(path_globs.exclude, StatLink(l))
               /\ ResolvesInside(vfs, l) ) =>
             ResolvedPathStat(vfs, Append(calls[i].arg.path_glob.symbolic_path, Last(l)), l)
               \in Range(calls[i].outcome.val.path_stats)
  /\ (ExpandReturned /\ result.tag = "ok") =>
       \A k \in 1..Len(result.val) :
         result.val[k].kind \in {"File", "Dir"} /\ result.val[k].stat.kind \in {"File", "Dir"}

\* C5: a link whose relative target does not exist is dropped: path_stats
\* returns None for it, a listing of expand that matches it holds no
\* PathStat for it, in every mode, and canonicalize of the link completes
\* without an error.
C5_BrokenLinkDropped ==
  /\ (pc = "stat" \/ PathStatsReturned) =>
       \A i \in 1..Len(calls) :
         calls[i].arg \in BrokenLinks(vfs) => calls[i].outcome = Ok(<<>>)
  /\ (PathStatsReturned /\ result.tag = "ok") =>
       \A i \in 1..Len(paths) : paths[i] \in BrokenLinks(vfs) => result.val[i] = <<>>
  /\ Expanding =>
       \A l \in BrokenLinks(vfs) :
         /\ canonicalize(vfs, l, StatLink(l), {}) = Ok(<<>>)
         /\ \A i \in 1..Len(calls) :
              ( /\ calls[i].outcome.tag = "ok"
                /\ Front(l) = calls[i].arg.path_glob.canonical_dir ) =>
              \A ps \in Range(calls[i].outcome.val.path_stats) :
                ps.path # Append(calls[i].arg.path_glob.symbolic_path, Last(l))
  /\ (ExpandReturned /\ vfs = "test") => ~SomeCallFailed

\* under mode Error a listing matched a broken link and expand returned the
\* other entries
C5_Witness ==
  /\ ExpandReturned
  /\ path_globs.strict_match_behavior = "Error"
  /\ result.tag = "ok"
  /\ result.val # <<>>
  /\ \E i \in 1..Len(calls), l \in BrokenLinks(vfs) :
       /\ calls[i].arg.path_glob.kind = "Wildcard"
       /\ Front(l) = calls[i].arg.path_glob.canonical_dir
       /\ Matches(calls[i].arg.path_glob.wildcard, Last(l))
       /\ ~IsIgnored(path_globs.exclude, StatLink(l))

\* C6: an entry of a listing whose Stat the local excludes ignore yields no
\* PathStat and no child glob, whatever pattern matched it; "**/*.txt"
\* with the exclude "secret/**" over a.txt, secret/b.txt returns File
\* a.txt only.
C6_ExcludeOverridesInclude ==
  /\ Expanding =>
       \A i \in 1..Len(calls) :
         ( /\ calls[i].outcome.tag = "ok"
           /\ Scandir(vfs, calls[i].arg.path_glob.canonical_dir).tag = "ok" ) =>
         \A stat \in Range(Scandir(vfs, calls[i].arg.path_glob.canonical_dir).val) :
           IsIgnored(path_globs.exclude, stat) =>
             /\ \A ps \in Range(calls[i].outcome.val.path_stats) :
                  ps.path # Append(calls[i].arg.path_glob.symbolic_path, Last(stat.path))
             /\ \A glob \in Range(calls[i].outcome.val.globs) :
                  ~IsPrefix(Append(calls[i].arg.path_glob.symbolic_path, Last(stat.path)),
                            glob.symbolic_path)
  /\ ( /\ ExpandReturned
       /\ vfs = "secret"
       /\ filespecs = << <<"**", "*.txt">> >>
       /\ path_globs.exclude = << <<"secret", "**">> >> ) =>
     result = Ok(<< PathStatOf(<<"a.txt">>, StatFile(<<"a.txt">>, FALSE)) >>)

\* the example has run: the listing of secret matched b.txt, which the
\* excludes ignore
C6_Witness ==
  /\ ExpandReturned
  /\ vfs = "secret"
  /\ filespecs = << <<"**", "*.txt">> >>
  /\ path_globs.exclude = << <<"secret", "**">> >>
  /\ result.tag = "ok"
  /\ \E i \in 1..Len(calls) :
       /\ calls[i].arg.path_glob.canonical_dir = <<"secret">>
       /\ calls[i].arg.path_glob.wildcard = "*.txt"
       /\ calls[i].outcome = Ok(SingleExpansionResult(calls[i].arg, <<>>, <<>>))

\* does the file-spec have the form p/**/q, p possibly empty
InnerDoubleStar(filespec) == \E k \in 1..(Len(filespec) - 1) : filespec[k] = "**"

\* does the file-spec have the form d/**, d possibly empty
TrailingDoubleStar(filespec) == filespec # <<>> /\ Last(filespec) = "**"

\* C7: over a tree of files and directories, an include list with an input
\* p/**/q returns exactly the entries that its inputs denote and that are
\* not ignored, "**" standing for any number of levels, none included: the
\* entries matching q in p and in every directory below p.
C7_DoubleStarAnyDepth ==
  ( /\ ExpandReturned
    /\ LinkFree(vfs)
    /\ \E k \in 1..Len(filespecs) : InnerDoubleStar(filespecs[k]) ) =>
  /\ result.tag = "ok" => Range(result.val) = PathStatsAt(vfs, DenotedByInclude)
  /\ result.tag = "err" =>
       \E k \in 1..Len(filespecs) : Denoted(vfs, filespecs[k], path_globs.exclude) = {}

\* "**/*.txt" returned a.txt, no level below the root, and secret/b.txt, one
\* level below it
C7_Witness ==
  /\ ExpandReturned
  /\ vfs = "secret"
  /\ filespecs = << <<"**", "*.txt">> >>
  /\ result.tag = "ok"
  /\ Len(result.val) = 2

\* C8 as stated: an include d/** returns the directory d itself.
C8_AsStated ==
  ( /\ ExpandReturned
    /\ LinkFree(vfs)
    /\ result.tag = "ok"
    /\ Len(filespecs) = 1
    /\ Len(filespecs[1]) > 1
    /\ TrailingDoubleStar(filespecs[1])
    /\ Front(filespecs[1]) \in DOMAIN FsEntries(vfs)
    /\ Visible(vfs, path_globs.exclude, Front(filespecs[1])) ) =>
  PathStatOf(Front(filespecs[1]), StatDir(Front(filespecs[1]))) \in Range(result.val)

\* C8, amended: over a tree of files and directories, an include list of
\* inputs d/** returns exactly the files and directories below the
\* directories d, at any depth, that are not ignored, and not d itself;
\* abc/** over abc/, abc/x, abc/y/z returns File abc/x, Dir abc/y and
\* File abc/y/z.
C8_TrailingDoubleStar ==
  /\ ( /\ ExpandReturned
       /\ LinkFree(vfs)
       /\ filespecs # <<>>
       /\ \A k \in 1..Len(filespecs) : TrailingDoubleStar(filespecs[k]) ) =>
     /\ result.tag = "ok" => Range(result.val) = PathStatsAt(vfs, DenotedByInclude)
     /\ result.tag = "err" =>
          \E k \in 1..Len(filespecs) : Denoted(vfs, filespecs[k], path_globs.exclude) = {}
  /\ ( /\ ExpandReturned
       /\ vfs = "abc"
       /\ filespecs = << <<"abc", "**">> >>
       /\ path_globs.exclude = <<>> ) =>
     result = Ok(<< PathStatOf(<<"abc", "x">>, StatFile(<<"abc", "x">>, FALSE)),
                    PathStatOf(<<"abc", "y">>, StatDir(<<"abc", "y">>)),
                    PathStatOf(<<"abc", "y", "z">>, StatFile(<<"abc", "y", "z">>, FALSE)) >>)

\* abc/** has been expanded over abc/, abc/x, abc/y/z
C8_Witness ==
  /\ ExpandReturned
  /\ vfs = "abc"
  /\ filespecs = << <<"abc", "**">> >>
  /\ path_globs.exclude = <<>>
  /\ result.tag = "ok"
  /\ Len(result.val) = 3

\* C9: what expand returns is a function of the PathGlobs and the
\* filesystem: in whatever order the futures of its rounds complete it
\* succeeds or fails as that function does and returns its sequence, and a
\* second expand returns what the first returned.
C9_Deterministic ==
  ExpandReturned =>
    /\ result.tag = expand(vfs, path_globs, {}, MaxRounds).tag
    /\ result.tag = "ok" => result.val = expand(vfs, path_globs, {}, MaxRounds).val
    /\ run = 2 =>
         /\ first.tag = result.tag
         /\ result.tag = "ok" => first.val = result.val

\* the second expand has returned a sequence of several PathStats after a
\* round of several futures
C9_Witness ==
  /\ ExpandReturned
  /\ run = 2
  /\ result.tag = "ok"
  /\ Len(result.val) > 1
  /\ Len(calls) > 1

\* C10: over a filesystem without a cycle of links every expand that has
\* begun returns, a sequence or an error.
C10_ExpandTerminates ==
  (NoSymlinkCycle(vfs) /\ pc = "round") ~> (pc = "done")

\* over a filesystem without a cycle of links expand has returned after
\* three rounds or more, todo being empty
C10_Witness ==
  /\ ExpandReturned
  /\ NoSymlinkCycle(vfs)
  /\ round >= 3
  /\ expansion.todo = <<>>
  /\ result.tag = "ok"

\* the links of its directory that a glob matches and that neither the
\* context nor the local excludes ignore
MatchedLinks(id, glob, exclude) ==
  {l \in Links(id) :
     /\ Front(l) = glob.canonical_dir
     /\ Matches(glob.wildcard, Last(l))
     /\ ~IsIgnored(exclude, StatLink(l))
     /\ ~IsIgnored(FsIgnore(id), StatLink(l))}

\* the scandir of the glob's directory fails (an entry is neither file,
\* directory nor link), or a matched link leads to a link with an absolute
\* target, whose read_link fails
CallMustFail(id, glob, exclude) ==
  \/ \E p \in Children(id, glob.canonical_dir) : FsEntries(id)[p].kind = "other"
  \/ \E l \in MatchedLinks(id, glob, exclude) : LinkTarget(id, l).tag = "absolute"

\* C11: an expand_single whose scandir or one of whose read_link calls
\* fails, directly or while a link is resolved, fails; an expand one of
\* whose expand_single calls failed returns the error of a failed call, in
\* every mode, and no PathStats, whatever earlier rounds had collected.
C11_ErrorAbortsExpand ==
  /\ Expanding =>
       \A i \in 1..Len(calls) :
         CallMustFail(vfs, calls[i].arg.path_glob, path_globs.exclude) =>
           calls[i].outcome.tag = "err"
  /\ (ExpandReturned /\ SomeCallFailed) =>
       /\ result.tag = "err"
       /\ result.val.kind \in {"io", "traverse"}
       /\ \E i \in 1..Len(calls) : result = calls[i].outcome

\* the first round collected PathStats, a read_link of the second round
\* failed, and expand returned the error
C11_Witness ==
  /\ ExpandReturned
  /\ round >= 2
  /\ expansion.outputs # <<>>
  /\ \E i \in 1..Len(calls) :
       /\ calls[i].outcome.tag = "err"
       /\ \E l \in MatchedLinks(vfs, calls[i].arg.path_glob, path_globs.exclude) :
            LinkTarget(vfs, l).tag = "absolute"
  /\ result.tag = "err"

\* a path_stats call is running or has returned: calls holds its futures
StatCalls == pc = "stat" \/ PathStatsReturned

\* C12 as stated: a path that does not exist yields None, not an error.
C12_AsStated ==
  StatCalls =>
    \A i \in 1..Len(calls) :
      Lookup(vfs, calls[i].arg).tag \in {"missing", "notdir"} => calls[i].outcome = Ok(<<>>)

\* C12, amended: path_stats returns one element per requested path, in
\* request order, the i-th for the i-th path: None, or a File or Dir
\* PathStat under the requested path, which for a file or directory is its
\* own Stat.  A path for which the lookup reports not-found yields None;
\* a path below a regular file does not exist either, but its lookup
\* reports not-a-directory, and that error fails the call as every error
\* other than not-found does.
C12_OnePerPath ==
  /\ StatCalls =>
       \A i \in 1..Len(calls) :
         /\ Lookup(vfs, calls[i].arg).tag = "missing" => calls[i].outcome = Ok(<<>>)
         /\ Lookup(vfs, calls[i].arg).tag = "notdir" => calls[i].outcome = Err("io")
  /\ (PathStatsReturned /\ result.tag = "ok") =>
       /\ Len(result.val) = Len(paths)
       /\ \A i \in 1..Len(paths) :
            /\ Len(result.val[i]) <= 1
            /\ result.val[i] # <<>> =>
                 /\ result.val[i][1].path = paths[i]
                 /\ result.val[i][1].kind \in {"File", "Dir"}
            /\ (paths[i] \in DOMAIN FsEntries(vfs)
                  /\ FsEntries(vfs)[paths[i]].kind \in {"file", "dir"}) =>
                 result.val[i] =
                   << PathStatOf(paths[i], StatInternal(paths[i], FsEntries(vfs)[paths[i]]).val) >>
  /\ (PathStatsReturned /\ result.tag = "err") =>
       \E i \in 1..Len(calls) :
         /\ result = calls[i].outcome
         /\ Lookup(vfs, calls[i].arg).tag # "missing"

\* of two paths the first does not exist and the second does: None, then
\* the PathStat of the second
C12_Witness ==
  /\ PathStatsReturned
  /\ result.tag = "ok"
  /\ Len(paths) = 2
  /\ Lookup(vfs, paths[1]).tag = "missing"
  /\ result.val[1] = <<>>
  /\ result.val[2] # <<>>

\* the first component, "." components aside, is ".."
RECURSIVE LeadingParent(_)
LeadingParent(filespec) ==
  /\ filespec # <<>>
  /\ IF Head(filespec) = "." THEN LeadingParent(Tail(filespec)) ELSE Head(filespec) = ".."

\* the number of ".." components at the start of a remainder
RECURSIVE LeadingParents(_)
LeadingParents(remainder) ==
  IF remainder # <<>> /\ Head(remainder) = ".." THEN 1 + LeadingParents(Tail(remainder)) ELSE 0

\* PathGlobs::create has been called with an include list
CreateCalled == pc # "idle" /\ filespecs # <<>>

\* C13 as stated: create returns a parse error for every include list with
\* a file-spec in which some ".." has no component before it left to
\* cancel.
C13_AsStated ==
  (CreateCalled /\ \E k \in 1..Len(filespecs) : Ascends(filespecs[k])) => pc = "rejected"

\* C13, amended: create returns the traversal error, and no PathGlobs value,
\* exactly for the include lists with a file-spec whose first component,
\* "." aside, is ".."; a file-spec in which a later ".." ascends above the
\* root is accepted, and expand_single fails with the traversal error when
\* the glob matches a directory with fewer levels than ".." components
\* follow.
C13_ParentDirAtParse ==
  /\ CreateCalled =>
       /\ pc = "rejected" <=> \E k \in 1..Len(filespecs) : LeadingParent(filespecs[k])
       /\ pc = "rejected" => result = Err("traverse") /\ path_globs = NoPathGlobs
  /\ Expanding =>
       \A i \in 1..Len(calls) :
         ( /\ calls[i].arg.path_glob.kind = "DirWildcard"
           /\ \E p \in Children(vfs, calls[i].arg.path_glob.canonical_dir) :
                /\ FsEntries(vfs)[p].kind = "dir"
                /\ Matches(calls[i].arg.path_glob.wildcard, Last(p))
                /\ ~IsIgnored(path_globs.exclude, StatDir(p))
                /\ ~IsIgnored(FsIgnore(vfs), StatDir(p))
                /\ Len(p) < LeadingParents(calls[i].arg.path_glob.remainder) ) =>
         calls[i].outcome.tag = "err"

\* create accepted a file-spec with a ".." that ascends above the root, and
\* expand failed with the traversal error
C13_Witness ==
  /\ ExpandReturned
  /\ \E k \in 1..Len(filespecs) : Ascends(filespecs[k])
  /\ result = Err("traverse")
  /\ \E i \in 1..Len(calls) :
       /\ calls[i].arg.path_glob.kind = "DirWildcard"
       /\ LeadingParents(calls[i].arg.path_glob.remainder) = 2
       /\ calls[i].outcome = Err("traverse")

\* the globs of the running or returned expand: those of the include
\* entries, those handed to expand_single in the current round, and the
\* child globs that these calls produced
GlobsInSight ==
  UNION {Range(path_globs.include[k].globs) : k \in 1..Len(path_globs.include)} \cup
  {calls[i].arg.path_glob : i \in 1..Len(calls)} \cup
  UNION {Range(calls[i].outcome.val.globs) :
           i \in {j \in 1..Len(calls) : calls[j].outcome.tag = "ok"}}

\* the PathStats of the running or returned expand: those that the calls
\* of the current round produced, and those collected so far
PathStatsInSight ==
  Range(expansion.outputs) \cup
  UNION {Range(calls[i].outcome.val.path_stats) :
           i \in {j \in 1..Len(calls) : calls[j].outcome.tag = "ok"}}

\* where the operating system arrives along a path from the root
Arrives(id, path) == Resolve(id, <<>>, path, Cardinality(DOMAIN FsEntries(id)))

\* C14 as stated: no symbolic_path of a PathGlob or of a PathStat contains
\* more ".." components than ordinary components before them.
C14_AsStated ==
  Expanding =>
    /\ \A glob \in GlobsInSight : ~Ascends(glob.symbolic_path)
    /\ \A ps \in PathStatsInSight : ~Ascends(ps.path)

\* C14, amended: the canonical_dir of every PathGlob is the root or a
\* directory of the tree, and its symbolic_path leads there from the root
\* when the operating system follows it; the path of every PathStat leads
\* to the entry of its Stat.  Over a tree without links no symbolic path
\* contains more ".." components than ordinary components before them;
\* through a link to a directory deeper in the tree it can.
C14_SymbolicStaysInside ==
  Expanding =>
    /\ \A glob \in GlobsInSight :
         /\ IsDirectory(vfs, glob.canonical_dir)
         /\ Arrives(vfs, glob.symbolic_path) = Resolved("at", glob.canonical_dir)
         /\ LinkFree(vfs) => ~Ascends(glob.symbolic_path)
    /\ \A ps \in PathStatsInSight :
         /\ ps.stat.path \in DOMAIN FsEntries(vfs)
         /\ Arrives(vfs, ps.path) = Resolved("at", ps.stat.path)
         /\ LinkFree(vfs) => ~Ascends(ps.path)

\* expand returned a PathStat whose path goes up twice after one name, the
\* name of a link to a directory two levels down
C14_Witness ==
  /\ ExpandReturned
  /\ result.tag = "ok"
  /\ \E ps \in Range(result.val) :
       /\ Ascends(ps.path)
       /\ Arrives(vfs, ps.path) = Resolved("at", ps.stat.path)

\* C15 as stated: no two PathStats of a returned sequence have the same
\* canonical Stat path.
C15_AsStated ==
  (ExpandReturned /\ result.tag = "ok") =>
    \A i, j \in 1..Len(result.val) :
      i # j => result.val[i].stat.path # result.val[j].stat.path

\* C15, amended: expand deduplicates by the whole PathStat.  No two
\* PathStats of a returned sequence have the same symbolic path, and every
\* PathStat that a call of the last round produced is returned: a file or
\* directory found under several symbolic names is returned once under
\* each of them.
C15_DedupBySymbolicName ==
  (ExpandReturned /\ result.tag = "ok") =>
    /\ \A i, j \in 1..Len(result.val) : i # j => result.val[i].path # result.val[j].path
    /\ \A ps \in PathStatsInSight : ps \in Range(result.val)

\* expand returned one file under two symbolic names
C15_Witness ==
  /\ ExpandReturned
  /\ result.tag = "ok"
  /\ \E i, j \in 1..Len(result.val) :
       /\ result.val[i].stat.path = result.val[j].stat.path
       /\ result.val[i].path # result.val[j].path
       /\ result.val[i].kind = "File"

\* the file-spec with every run of "**" components cut down to one "**"
RECURSIVE Collapse(_)
Collapse(filespec) ==
  IF Len(filespec) < 2 THEN filespec
  ELSE IF filespec[1] = "**" /\ filespec[2] = "**" THEN Collapse(Tail(filespec))
  ELSE <<Head(filespec)>> \o Collapse(Tail(filespec))

HasDoubleStarRun(filespec) ==
  \E k \in 1..(Len(filespec) - 1) : filespec[k] = "**" /\ filespec[k + 1] = "**"

\* the PathGlobs of the include list with its runs of "**" collapsed
CollapsedPathGlobs ==
  PathGlobsCreate([k \in 1..Len(filespecs) |-> Collapse(filespecs[k])],
                  path_globs.exclude, path_globs.strict_match_behavior)

\* C16: a file-spec with a run of adjacent "**" components parses to the
\* list of PathGlobs of the file-spec with one "**" in its place: for every
\* file-spec of up to MaxParts components out of a, ** and *.rs, and for the
\* include lists handed to create, whose expand then returns what the
\* expand of the collapsed include list returns.
C16_DoubleStarsCollapse ==
  /\ pc = "idle" =>
       \A filespec \in SeqsUpTo({"a", "**", "*.rs"}, MaxParts) :
         parse(<<>>, <<>>, filespec) = parse(<<>>, <<>>, Collapse(filespec))
  /\ (pc = "created" /\ \E k \in 1..Len(filespecs) : HasDoubleStarRun(filespecs[k])) =>
       \A k \in 1..Len(filespecs) :
         path_globs.include[k].globs = CollapsedPathGlobs.val.include[k].globs
  /\ (ExpandReturned /\ \E k \in 1..Len(filespecs) : HasDoubleStarRun(filespecs[k])) =>
       /\ result.tag = expand(vfs, CollapsedPathGlobs.val, {}, MaxRounds).tag
       /\ result.tag = "ok" =>
            result.val = expand(vfs, CollapsedPathGlobs.val, {}, MaxRounds).val

\* the include **/**/*.txt has been expanded and returned files of two
\* levels
C16_Witness ==
  /\ ExpandReturned
  /\ vfs = "secret"
  /\ filespecs = << <<"**", "**", "*.txt">> >>
  /\ path_globs.include[1].globs = parse(<<>>, <<>>, <<"**", "*.txt">>).val
  /\ result.tag = "ok"
  /\ Len(result.val) = 2

\* C17: when no file-spec of the include list contains a ".." component,
\* the symbolic path of every PathStat that expand returns is relative and
\* contains no ".." component, also for a link whose target contains "..".
C17_NoParentDirInOutputs ==
  ( /\ ExpandReturned
    /\ result.tag = "ok"
    /\ \A k \in 1..Len(filespecs) : ".." \notin Range(filespecs[k]) ) =>
  \A k \in 1..Len(result.val) :
    /\ result.val[k].path # <<>>
    /\ ".." \notin Range(result.val[k].path)
    /\ "/" \notin Range(result.val[k].path)

\* expand returned, for an include list without "..", the PathStat of a link
\* whose target begins with ".."
C17_Witness ==
  /\ ExpandReturned
  /\ result.tag = "ok"
  /\ \A k \in 1..Len(filespecs) : ".." \notin Range(filespecs[k])
  /\ \E k \in 1..Len(result.val) :
       /\ result.val[k].path \in Links(vfs)
       /\ ".." \in Range(FsEntries(vfs)[result.val[k].path].target)

\* the largest directory of which every order of enumeration is tried
MaxEnumerated == 4

\* the orders in which read_dir may enumerate the entries of a directory:
\* every order of a directory of at most MaxEnumerated entries, the
\* descending and the ascending order of a larger one
Enumerations(children) ==
  IF Cardinality(children) <= MaxEnumerated
  THEN {e \in [1..Cardinality(children) -> children] :
          \A i, j \in 1..Cardinality(children) : e[i] = e[j] => i = j}
  ELSE With(ReadDir(children),
            LAMBDA e : {e, [i \in 1..Len(e) |-> e[Len(e) + 1 - i]]})

\* the Stat that an entry of a directory is listed as
ListedAs(id, p) ==
  CASE FsEntries(id)[p].kind = "dir" -> StatDir(p)
    [] FsEntries(id)[p].kind = "file" ->
         StatFile(p, FsEntries(id)[p].mode % 128 >= 64)
    [] OTHER -> StatLink(p)

\* what scandir has to return for a directory with these entries
ScandirAsSpecified(id, children, listed) ==
  IF \E p \in children : FsEntries(id)[p].kind = "other"
  THEN listed = Err("io")
  ELSE /\ listed.tag = "ok"
       /\ Len(listed.val) = Cardinality(children)
       /\ \A p \in children : \E k \in 1..Len(listed.val) : listed.val[k] = ListedAs(id, p)
       /\ \A k \in 1..(Len(listed.val) - 1) :
            PathLess(listed.val[k].path, listed.val[k + 1].path)

\* C18: for every directory that an expand_single of the round lists, and
\* in whatever order the operating system enumerates its entries, scandir
\* returns one Stat per entry, in strictly ascending order of path, a
\* directory as Dir, a file as File and a symbolic link as Link (an entry
\* of another kind fails the call).
C18_ScandirSortedAndClassified ==
  Expanding =>
    \A i \in 1..Len(calls) :
      IsDirectory(vfs, calls[i].arg.path_glob.canonical_dir) =>
        /\ \A entries \in Enumerations(Children(vfs, calls[i].arg.path_glob.canonical_dir)) :
             ScandirAsSpecified(vfs, Range(entries), ScandirEntries(vfs, entries))
        /\ ScandirAsSpecified(vfs, Children(vfs, calls[i].arg.path_glob.canonical_dir),
                              Scandir(vfs, calls[i].arg.path_glob.canonical_dir))

\* an expand_single of the round lists a directory that holds a
\* directory, a file and a link, enumerated in descending order
C18_Witness ==
  /\ pc = "round"
  /\ \E i \in 1..Len(calls) :
       /\ IsDirectory(vfs, calls[i].arg.path_glob.canonical_dir)
       /\ Scandir(vfs, calls[i].arg.path_glob.canonical_dir).tag = "ok"
       /\ \E e \in {ReadDir(Children(vfs, calls[i].arg.path_glob.canonical_dir))} :
            /\ Len(e) >= 3
            /\ PathLess(e[2], e[1])
            /\ {FsEntries(vfs)[e[k]].kind : k \in 1..Len(e)} = {"dir", "file", "link"}

\* the PathStats that the last operation returned: the outputs of expand,
\* the Some(..) among the results of path_stats
ReturnedPathStats ==
  IF pc # "done" \/ result.tag # "ok" THEN {}
  ELSE IF path_globs # NoPathGlobs THEN Range(result.val)
  ELSE {result.val[i][1] : i \in {j \in 1..Len(result.val) : result.val[j] # <<>>}}

\* the mode of the file that a Stat was made of
ModeAt(id, stat) == FsEntries(id)[Lookup(id, stat.path).path].mode

\* C19: a File is reported as executable exactly when the owner's execute
\* bit 0o100 of its mode is set: a file of mode 0o611 is not executable,
\* a file of mode 0o700 is.
C19_OwnerExecuteBit ==
  \A ps \in ReturnedPathStats :
    ps.kind = "File" =>
      /\ ps.stat.is_executable = (ModeAt(vfs, ps.stat) % 128 >= 64)
      /\ ModeAt(vfs, ps.stat) % 512 = Octal(6, 1, 1) => ~ps.stat.is_executable
      /\ ModeAt(vfs, ps.stat) % 512 = Octal(7, 0, 0) => ps.stat.is_executable

\* expand returned a file of mode 0o611: group and others may execute it,
\* the owner may not
C19_Witness ==
  /\ ExpandReturned
  /\ \E ps \in ReturnedPathStats :
       /\ ps.kind = "File"
       /\ ModeAt(vfs, ps.stat) % 512 = Octal(6, 1, 1)
       /\ ~ps.stat.is_executable

\* path_stats returned a file of mode 0o700
C19_OwnerOnly ==
  /\ PathStatsReturned
  /\ \E ps \in ReturnedPathStats :
       /\ ps.kind = "File"
       /\ ModeAt(vfs, ps.stat) % 512 = Octal(7, 0, 0)
       /\ ps.stat.is_executable

\* the parents of an entry of completed: the globs of its ParentGlob sources
ParentsOf(entry) ==
  {entry.sources[k].of :
     k \in {j \in 1..Len(entry.sources) : entry.sources[j].kind = "ParentGlob"}}

\* the inputs of an entry of completed: those of its ParsedInput sources
InputsOf(entry) ==
  {entry.sources[k].of :
     k \in {j \in 1..Len(entry.sources) : entry.sources[j].kind = "ParsedInput"}}

\* the entry's own listing, or that of a glob derived from it, was not empty
MatchedBelow(completed, glob) ==
  \E derived \in DerivedFrom(completed, {glob}) : ProducedPathStats(completed, derived)

\* what the reverse walk has to leave behind: an entry is Matched exactly
\* when it or a glob derived from it produced PathStats, and the inputs
\* recorded are those of such entries
WalkedBottomUp(completed, w) ==
  /\ ~w.panicked
  /\ \A i \in 1..Len(completed) :
       w.completed[i].matched = Matched <=> MatchedBelow(completed, completed[i].key)
  /\ w.inputs_with_matches =
       UNION {InputsOf(completed[i]) :
                i \in {j \in 1..Len(completed) : MatchedBelow(completed, completed[j].key)}}

\* C20: in completed every parent of an entry (the glob of each of its
\* ParentGlob sources) is an entry inserted before it, so the walk from
\* the last entry to the first marks as Matched every entry from which a
\* glob with PathStats derives, and records every input of such an entry.
C20_ParentsInsertedFirst ==
  /\ Expanding =>
       \A i \in 1..Len(expansion.completed) :
         \A p \in ParentsOf(expansion.completed[i]) :
           /\ p \in Keys(expansion.completed)
           /\ IndexOfKey(expansion.completed, p) < i
  /\ (ExpandReturned /\ ~SomeCallFailed) =>
       With(BackPropagate(expansion.completed),
            LAMBDA w : WalkedBottomUp(expansion.completed, w))

\* expand returned after three rounds: the walk marked an entry whose own
\* listing was empty, through an entry between it and the one that matched
C20_Witness ==
  /\ ExpandReturned
  /\ ~SomeCallFailed
  /\ \E i, j, k \in 1..Len(expansion.completed) :
       /\ expansion.completed[i].key \in ParentsOf(expansion.completed[j])
       /\ expansion.completed[j].key \in ParentsOf(expansion.completed[k])
       /\ expansion.completed[i].matched = Unmatched
       /\ expansion.completed[j].matched = Unmatched
       /\ expansion.completed[k].matched = Matched
       /\ InputsOf(expansion.completed[i]) # {}
       /\ BackPropagate(expansion.completed).completed[i].matched = Matched

\* C21 as stated: within one expand no PathGlob is handed to
\* expand_single twice: the globs of the futures of a round differ from
\* one another and from the globs expanded in the rounds before, which
\* are the keys of completed.
C21_AsStated ==
  pc = "round" =>
    /\ \A i, j \in 1..Len(calls) :
         i # j => calls[i].arg.path_glob # calls[j].arg.path_glob
    /\ \A i \in 1..Len(calls) :
         calls[i].arg.path_glob \notin Keys(expansion.completed)

\* how often x occurs in the sequence s
Occurrences(s, x) == Cardinality({i \in 1..Len(s) : s[i] = x})

RECURSIVE Sum(_)
Sum(s) == IF s = <<>> THEN 0 ELSE Head(s) + Sum(Tail(s))

\* how often the loop reached the glob: once for each place it has among
\* the globs of an include entry, and once for each place it has among the
\* children of a glob, for every time that glob was reached
TimesReached(include, completed, glob) ==
  Sum([k \in 1..Len(include) |-> Occurrences(include[k].globs, glob)])
  + Sum([n \in 1..Len(completed) |->
           Len(completed[n].sources) * Occurrences(completed[n].globs, glob)])

\* C22: when the loop of expand has ended, the sources of every entry g of
\* completed hold ParsedInput(s) for every include input s that has g among
\* its globs and ParentGlob(p) for every entry p that has g among its
\* children, and as many sources as there were ways to reach g.
C22_ProvenanceComplete ==
  (ExpandReturned /\ ~SomeCallFailed) =>
    \A i \in 1..Len(expansion.completed) :
      /\ \A k \in 1..Len(path_globs.include) :
           expansion.completed[i].key \in Range(path_globs.include[k].globs) =>
             ParsedInput(path_globs.include[k].input) \in Range(expansion.completed[i].sources)
      /\ \A n \in 1..Len(expansion.completed) :
           expansion.completed[i].key \in Range(expansion.completed[n].globs) =>
             ParentGlob(expansion.completed[n].key) \in Range(expansion.completed[i].sources)
      /\ Len(expansion.completed[i].sources) =
           TimesReached(path_globs.include, expansion.completed, expansion.completed[i].key)

\* the loop has ended with an entry that two different parents produced in
\* the same round
C22_Witness ==
  /\ ExpandReturned
  /\ ~SomeCallFailed
  /\ \E i \in 1..Len(expansion.completed) :
       /\ Cardinality(ParentsOf(expansion.completed[i])) >= 2
       /\ Len(expansion.completed[i].sources) >= 2

\* what a step that merges a round makes of the expansion: the results of
\* the futures merged one after another, in the order of the futures, which
\* is the order their globs had in todo; todo is drained for the next round
MergesWholeRound ==
  /\ pc = "round"
  /\ \A i \in 1..Len(slots) : slots[i] = calls[i].outcome /\ slots[i].tag = "ok"
  /\ \E merged \in {MergeRound(expansion, [i \in 1..Len(calls) |-> calls[i].outcome.val])} :
       IF merged.todo = <<>>
       THEN expansion' = merged
       ELSE /\ expansion' = [merged EXCEPT !.todo = <<>>]
            /\ Len(calls') = Len(merged.todo)
            /\ \A i \in 1..Len(merged.todo) : calls'[i].arg = merged.todo[i]

\* C23: todo, completed and outputs change only in the step that follows
\* the completion of every expand_single future of the round (or when an
\* expand starts and they are set up): no result is merged while a future
\* of the round is outstanding, and that step merges the results in the
\* order in which their globs were in todo.
C23_RoundBarrier ==
  [][ expansion' # expansion => (pc = "created" \/ MergesWholeRound) ]_vars

\* in the second round a later future has completed with PathStats while
\* an earlier one is outstanding, and outputs holds none of them yet
C23_Witness ==
  /\ pc = "round"
  /\ round >= 2
  /\ \E i, j \in 1..Len(slots) :
       /\ i < j
       /\ slots[i].tag = "pending"
       /\ slots[j].tag = "ok"
       /\ slots[j].val.path_stats # <<>>
       /\ \A ps \in Range(slots[j].val.path_stats) : ps \notin Range(expansion.outputs)

\* the place of the first occurrence of x in the sequence s
FirstAt(s, x) == CHOOSE i \in 1..Len(s) : s[i] = x /\ \A j \in 1..(i - 1) : s[j] # x

\* after is before with the PathStats of produced that before does not
\* hold put behind it, each once, in the order of their first occurrence
InOrderOfDiscovery(before, produced, after) ==
  /\ IsPrefix(before, after)
  /\ NoDuplicates(after)
  /\ Range(after) = Range(before) \cup Range(produced)
  /\ \A k, l \in (Len(before) + 1)..Len(after) :
       k < l => FirstAt(produced, after[k]) < FirstAt(produced, after[l])

\* the PathStats of a listing follow the sorted order of the directory
ListingInOrder(path_stats) ==
  \A k, l \in 1..Len(path_stats) :
    k < l => NameRank(Last(path_stats[k].path)) < NameRank(Last(path_stats[l].path))

\* C24: outputs lists the PathStats in the order of their discovery: a
\* round puts the PathStats it is the first to produce behind those of the
\* rounds before, in the order of its globs in todo and, for one glob, in
\* the sorted order of the listing; expand returns outputs as it stands.
C24_OrderOfDiscovery ==
  [][ /\ (pc = "round" /\ expansion' # expansion) =>
           InOrderOfDiscovery(expansion.outputs,
             FlattenSeq([i \in 1..Len(calls) |-> calls[i].outcome.val.path_stats]),
             expansion'.outputs)
      /\ pc' = "round" =>
           \A i \in 1..Len(calls') :
             calls'[i].outcome.tag = "ok" =>
               ListingInOrder(calls'[i].outcome.val.path_stats)
      /\ (pc' = "done" /\ path_globs' # NoPathGlobs /\ result'.tag = "ok"
            /\ path_globs'.include # <<>>) =>
           result'.val = expansion'.outputs ]_vars

\* expand returned PathStats of an earlier round before those that its
\* last round was the first to produce, two of them for one glob, and a
\* PathStat of the last round precedes one of an earlier round by path
C24_Witness ==
  /\ ExpandReturned
  /\ result.tag = "ok"
  /\ round >= 2
  /\ \E i \in 1..Len(calls) : Len(calls[i].outcome.val.path_stats) >= 2
  /\ \E k, l \in 1..Len(result.val) :
       /\ k < l
       /\ \A i \in 1..Len(calls) : result.val[k] \notin Range(calls[i].outcome.val.path_stats)
       /\ \E i \in 1..Len(calls) : result.val[l] \in Range(calls[i].outcome.val.path_stats)
       /\ NameRank(result.val[l].path[1]) < NameRank(result.val[k].path[1])

\* the expansion that canonicalize runs for the link at path l, to its end
NestedExpansion(id, l) ==
  With(ReadLink(id, StatLink(l)),
       LAMBDA dest_path :
         IF dest_path.tag = "err" THEN dest_path
         ELSE With(from_globs(LinkGlobs(PathGlobCreate(<< EscapedDest(dest_path.val) >>))),
                   LAMBDA nested :
                     ExpandLoop(id,
                                PathGlobsExpansion(InitialTodo(nested.include), <<>>, <<>>),
                                nested.exclude, {l}, Len(dest_path.val) + 1)))

\* the globs of an expansion that has come to its end: those expanded and
\* their children
GlobsOfExpansion(final_expansion) ==
  IF final_expansion.tag # "ok" THEN {}
  ELSE Keys(final_expansion.val.completed) \cup
       UNION {Range(final_expansion.val.completed[n].globs) :
                n \in 1..Len(final_expansion.val.completed)}

\* the number of ".." components at the head of the parts
RECURSIVE LeadingAscents(_)
LeadingAscents(parts) ==
  IF parts = <<>> \/ Head(parts) # PARENT_DIR THEN 0 ELSE 1 + LeadingAscents(Tail(parts))

\* the directory is the root, or a directory of the tree (and so no link)
CanonicalDirectory(id, dir) ==
  \/ dir = <<>>
  \/ /\ dir \in DOMAIN FsEntries(id)
     /\ FsEntries(id)[dir].kind = "dir"
     /\ Arrives(id, dir) = Resolved("at", dir)
     /\ \A k \in 1..Len(dir) : dir[k] \notin {".", "..", "/"}

\* the glob lists a directory in which its wildcard matches a directory
\* that no pattern ignores and above which its remainder ascends beyond
\* the root
PopsAboveRoot(id, glob, exclude) ==
  /\ glob.kind = "DirWildcard"
  /\ \E d \in Children(id, glob.canonical_dir) :
       /\ FsEntries(id)[d].kind = "dir"
       /\ Matches(glob.wildcard, Last(d))
       /\ ~IsIgnored(exclude, StatDir(d))
       /\ ~ContextIsIgnored(id, StatDir(d))
       /\ LeadingAscents(glob.remainder) > Len(d)

\* C25: the canonical_dir of every PathGlob of an expansion (of an include
\* entry, handed to expand_single, produced as a child, or of the
\* expansion that resolves a link of the tree) is the root or the path
\* from the root of a directory of the tree that is no link; an
\* expand_single whose child globs would ascend above the root fails and
\* produces no glob.
C25_CanonicalDirInsideRoot ==
  Expanding =>
    /\ \A glob \in GlobsInSight : CanonicalDirectory(vfs, glob.canonical_dir)
    /\ \A l \in Links(vfs) :
         \A glob \in GlobsOfExpansion(NestedExpansion(vfs, l)) :
           CanonicalDirectory(vfs, glob.canonical_dir)
    /\ \A i \in 1..Len(calls) :
         PopsAboveRoot(vfs, calls[i].arg.path_glob, path_globs.exclude) =>
           calls[i].outcome.tag = "err"

\* a glob was reached through a link to a directory: its symbolic path is
\* the name of the link, its canonical_dir the directory two levels down
C25_Witness ==
  /\ pc = "round"
  /\ \E i \in 1..Len(calls) :
       /\ calls[i].arg.path_glob.symbolic_path \in Links(vfs)
       /\ Len(calls[i].arg.path_glob.canonical_dir) = 2
       /\ calls[i].outcome.tag = "ok"
       /\ calls[i].outcome.val.path_stats # <<>>

\* an expand_single failed where its child glob would have ascended above
\* the root
C25_PopFails ==
  /\ pc = "round"
  /\ \E i \in 1..Len(calls) :
       /\ PopsAboveRoot(vfs, calls[i].arg.path_glob, path_globs.exclude)
       /\ calls[i].outcome.tag = "err"

\* C26 as stated: no ".." of a file-spec becomes the wildcard of a PathGlob,
\* which is what directory_listing matches against the names of the
\* entries.
C26_AsStated ==
  Expanding =>
    \A glob \in GlobsInSight : glob.wildcard # PARENT_DIR

\* C27 as stated: an expand_single that matches a link whose relative
\* target does not lead to an entry inside the root (it names nothing, or
\* ascends above the root) does not fail with the error of parse_globs,
\* and yields no PathStat for the link, in whichever directory the link
\* lies.
C27_AsStated ==
  Expanding =>
    \A i \in 1..Len(calls) :
      \A l \in MatchedLinks(vfs, calls[i].arg.path_glob, path_globs.exclude) :
        ( /\ LinkTarget(vfs, l).tag \in {"outside", "missing", "notdir"}
          /\ ~PopsAboveRoot(vfs, calls[i].arg.path_glob, path_globs.exclude) ) =>
          /\ calls[i].outcome.tag = "err" => calls[i].outcome.val.kind # "traverse"
          /\ calls[i].outcome.tag = "ok" =>
               \A ps \in Range(calls[i].outcome.val.path_stats) :
                 ps.path # Append(calls[i].arg.path_glob.symbolic_path, Last(l))

\* what the expansion that canonicalize runs for the link at path l returns
NestedPathStats(id, l) ==
  With(ReadLink(id, StatLink(l)),
       LAMBDA dest_path :
         IF dest_path.tag = "err" THEN dest_path
         ELSE With(from_globs(LinkGlobs(PathGlobCreate(<< EscapedDest(dest_path.val) >>))),
                   LAMBDA nested : expand(id, nested, {l}, Len(dest_path.val) + 1)))

\* the PathStats of the sequence that bear the path
Under(path_stats, path) == SelectSeq(path_stats, LAMBDA ps : ps.path = path)

\* the nested PathStats under the name that the caller of canonicalize gave
Renamed(path_stats, symbolic_path) ==
  [k \in 1..Len(path_stats) |-> PathStatOf(symbolic_path, path_stats[k].stat)]

\* what C28 says of the link at path l and of what its nested expansion
\* returned
AtMostOneDestination(l, nested) ==
  /\ nested.tag = "ok" => Len(nested.val) <= 1
  /\ ( /\ LinkTarget(vfs, l).tag = "at"
       /\ LinkTarget(vfs, l).path \in DOMAIN FsEntries(vfs)
       /\ FsEntries(vfs)[LinkTarget(vfs, l).path].kind = "file"
       /\ FsIgnore(vfs) = <<>> ) =>
       /\ nested.tag = "ok"
       /\ Len(nested.val) = 1
       /\ nested.val[1].stat.path = LinkTarget(vfs, l).path
  /\ \A i \in 1..Len(calls) :
       ( /\ l \in MatchedLinks(vfs, calls[i].arg.path_glob, path_globs.exclude)
         /\ calls[i].outcome.tag = "ok"
         /\ calls[i].arg.path_glob.kind = "Wildcard" ) =>
         /\ nested.tag = "ok"
         /\ Under(calls[i].outcome.val.path_stats,
                  Append(calls[i].arg.path_glob.symbolic_path, Last(l)))
              = Renamed(nested.val, Append(calls[i].arg.path_glob.symbolic_path, Last(l)))

\* C28: the expansion that canonicalize runs on the escaped target of a
\* link returns at most one PathStat (exactly one, that of the file, for a
\* link that leads to a file when the context ignores nothing), also for a
\* target with a metacharacter in a directory of several entries; the
\* PathStat that a listing holds for a matched link is that PathStat with
\* the same Stat, under the name of the link in the listing.
C28_LinkHasOneDestination ==
  Expanding =>
    \A l \in Links(vfs) :
      With(NestedPathStats(vfs, l), LAMBDA nested : AtMostOneDestination(l, nested))

\* a listing matched a link whose target is a metacharacter, in a
\* directory of several entries, and holds for it the file of that name
C28_Witness ==
  /\ pc = "round"
  /\ \E i \in 1..Len(calls) :
       \E l \in MatchedLinks(vfs, calls[i].arg.path_glob, path_globs.exclude) :
         /\ FsEntries(vfs)[l].target = << "*" >>
         /\ Cardinality(Children(vfs, Front(l))) >= 3
         /\ calls[i].outcome.tag = "ok"
         /\ PathStatOf(Append(calls[i].arg.path_glob.symbolic_path, Last(l)),
                       StatFile(Append(Front(l), "*"), FALSE))
              \in Range(calls[i].outcome.val.path_stats)

\* the entries that the operating system passes from directory cur along
\* the components rest, the last one included, following at most fuel links
RECURSIVE Traversed(_, _, _, _)
Traversed(id, cur, rest, fuel) ==
  IF rest = <<>> \/ Head(rest) = "/" THEN {}
  ELSE IF Head(rest) = "." THEN Traversed(id, cur, Tail(rest), fuel)
  ELSE IF Head(rest) = ".." THEN
    IF cur = <<>> THEN {} ELSE Traversed(id, Front(cur), Tail(rest), fuel)
  ELSE IF Append(cur, Head(rest)) \notin DOMAIN FsEntries(id) THEN {}
  ELSE {Append(cur, Head(rest))} \cup
       IF FsEntries(id)[Append(cur, Head(rest))].kind = "link"
       THEN IF fuel = 0 THEN {}
            ELSE Traversed(id, cur, FsEntries(id)[Append(cur, Head(rest))].target \o Tail(rest),
                           fuel - 1)
       ELSE Traversed(id, Append(cur, Head(rest)), Tail(rest), fuel)

\* the patterns of the context ignore the entry at the path
EntryIgnored(id, p) == GitignoreMatched(FsIgnore(id), p) = "ignore"

\* the entries on the way from the root to what the link at l leads to,
\* along the destination that read_link gives
OnTheWay(id, l) ==
  Traversed(id, <<>>, Front(l) \o FsEntries(id)[l].target, Cardinality(DOMAIN FsEntries(id)))

\* C29: no PathStat of an expand has a Stat that the context ignores, and
\* a listing holds no PathStat for a matched link that the context ignores,
\* or whose destination leads over or to an entry that the context ignores.
C29_ContextIgnoreBothViews ==
  Expanding =>
    /\ \A ps \in PathStatsInSight : ~EntryIgnored(vfs, ps.stat.path)
    /\ \A i \in 1..Len(calls) :
         calls[i].outcome.tag = "ok" =>
           \A l \in Links(vfs) :
             ( /\ Front(l) = calls[i].arg.path_glob.canonical_dir
               /\ Matches(calls[i].arg.path_glob.wildcard, Last(l))
               /\ \/ EntryIgnored(vfs, l)
                  \/ \E p \in OnTheWay(vfs, l) : EntryIgnored(vfs, p) ) =>
               \A ps \in Range(calls[i].outcome.val.path_stats) :
                 ps.path # Append(calls[i].arg.path_glob.symbolic_path, Last(l))

\* a listing matched an ignored link, a link to an ignored file and a link
\* to a file in an ignored directory, and holds a PathStat for none of
\* them, but one for a file
C29_Witness ==
  /\ Expanding
  /\ \E i \in 1..Len(calls) :
       /\ calls[i].outcome.tag = "ok"
       /\ calls[i].arg.path_glob.kind = "Wildcard"
       /\ calls[i].outcome.val.path_stats # <<>>
       /\ \E own, to, over \in {l \in Links(vfs) :
                                  /\ Front(l) = calls[i].arg.path_glob.canonical_dir
                                  /\ Matches(calls[i].arg.path_glob.wildcard, Last(l))} :
            /\ EntryIgnored(vfs, own)
            /\ ~EntryIgnored(vfs, to)
            /\ EntryIgnored(vfs, LinkTarget(vfs, to).path)
            /\ ~EntryIgnored(vfs, over)
            /\ ~EntryIgnored(vfs, LinkTarget(vfs, over).path)
            /\ \E p \in OnTheWay(vfs, over) : EntryIgnored(vfs, p)

\* the links of its directory that the wildcard of a glob matches
LinksListed(id, glob) ==
  {l \in Links(id) : Front(l) = glob.canonical_dir /\ Matches(glob.wildcard, Last(l))}

\* C30: the local excludes decide on a matched link by the path of the
\* link alone.  Over a context that ignores nothing, the listing of a
\* Wildcard holds no PathStat for a link whose own path the excludes
\* match, and for every other link that leads to a file or directory of the
\* tree (by a destination that does not end in "..") its name with the
\* Stat of that file or directory, whether or not the excludes match the
\* path of the destination.
C30_ExcludesJudgeLinkByName ==
  Expanding =>
    \A i \in 1..Len(calls) :
      ( /\ calls[i].outcome.tag = "ok"
        /\ calls[i].arg.path_glob.kind = "Wildcard"
        /\ FsIgnore(vfs) = <<>> ) =>
        \A l \in LinksListed(vfs, calls[i].arg.path_glob) :
          IF IsIgnored(path_globs.exclude, StatLink(l))
          THEN \A ps \in Range(calls[i].outcome.val.path_stats) :
                 ps.path # Append(calls[i].arg.path_glob.symbolic_path, Last(l))
          ELSE (ResolvesInside(vfs, l) /\ Last(FsEntries(vfs)[l].target) # "..") =>
                 ResolvedPathStat(vfs, Append(calls[i].arg.path_glob.symbolic_path, Last(l)), l)
                   \in Range(calls[i].outcome.val.path_stats)

\* expand returned, under the name of a link, the Stat of a file whose
\* path the local excludes match
C30_Witness ==
  /\ ExpandReturned
  /\ result.tag = "ok"
  /\ FsIgnore(vfs) = <<>>
  /\ \E ps \in Range(result.val) :
       /\ ps.path \in Links(vfs)
       /\ ~IsIgnored(path_globs.exclude, StatLink(ps.path))
       /\ IsIgnored(path_globs.exclude, ps.stat)

\* the link at path l belongs to a cycle of links, or leads into one
InLinkCycle(id, l) == LinkTarget(id, l).tag = "loop"

\* the links of a cycle that a call matched and that no pattern ignores
CycleLinksMatched(i) ==
  {l \in MatchedLinks(vfs, calls[i].arg.path_glob, path_globs.exclude) : InLinkCycle(vfs, l)}

\* the link at path l leads to a directory that it lies in, and the
\* excludes ignore none of the directories from there down to the link
LeadsToAncestor(id, l, exclude) ==
  /\ LinkTarget(id, l).tag = "at"
  /\ IsPrefix(LinkTarget(id, l).path, Front(l))
  /\ \A k \in (Len(LinkTarget(id, l).path) + 1)..Len(Front(l)) :
       ~IsIgnored(exclude, StatDir(SubSeq(l, 1, k)))

\* the glob is the recursive glob of a "**", and its symbolic path leads
\* over a link to a directory that the link lies in
DescendedThroughAncestorLink(id, glob, exclude) ==
  /\ glob.kind = "DirWildcard"
  /\ glob.wildcard = SINGLE_STAR_GLOB
  /\ Head(glob.remainder) = DOUBLE_STAR
  /\ \E k \in 1..Len(glob.symbolic_path) :
       With(Lookup(id, SubSeq(glob.symbolic_path, 1, k)),
            LAMBDA found :
              /\ found.tag = "at"
              /\ found.path \in Links(id)
              /\ LeadsToAncestor(id, found.path, exclude))

\* C31 as stated: an expand one of whose calls matched a link of a cycle of
\* links does not return.
C31_AsStated ==
  ExpandReturned => \A i \in 1..Len(calls) : CycleLinksMatched(i) = {}

\* C31, amended: an expand_single that matched a link of a cycle of links,
\* and that does not fail, never completes, and an expand with such a call
\* returns no sequence: it does not return, unless a call of the same round
\* fails, and then it returns the error of a failed call.  An expand whose
\* loop came to its end has expanded no "**" glob that was reached over a
\* link to a directory that the link lies in.
C31_CyclesDiverge ==
  /\ Expanding =>
       \A i \in 1..Len(calls) :
         ( /\ CycleLinksMatched(i) # {}
           /\ ~CallMustFail(vfs, calls[i].arg.path_glob, path_globs.exclude) ) =>
           calls[i].outcome.tag = "hang"
  /\ (ExpandReturned /\ \E i \in 1..Len(calls) : CycleLinksMatched(i) # {}) =>
       /\ result.tag = "err"
       /\ result.val.kind # "strict"
       /\ \E i \in 1..Len(calls) : calls[i].outcome.tag = "err" /\ result = calls[i].outcome
  /\ (ExpandReturned /\ ~SomeCallFailed) =>
       \A n \in 1..Len(expansion.completed) :
         ~DescendedThroughAncestorLink(vfs, expansion.completed[n].key, path_globs.exclude)

\* every other future of the round has completed, and the one that matched
\* a link of a cycle is outstanding
C31_Witness ==
  /\ pc = "round"
  /\ \E i \in 1..Len(calls) :
       /\ CycleLinksMatched(i) # {}
       /\ calls[i].outcome.tag = "hang"
       /\ slots[i].tag = "pending"
       /\ \A j \in 1..Len(slots) : j # i => slots[j].tag = "ok"
  /\ Len(calls) >= 2

\* the loop has reached its last round that the model follows with a "**"
\* glob that came over a link to the directory the link lies in
C31_DescendsForever ==
  /\ pc = "round"
  /\ round = MaxRounds
  /\ \E i \in 1..Len(calls) :
       /\ DescendedThroughAncestorLink(vfs, calls[i].arg.path_glob, path_globs.exclude)
       /\ calls[i].outcome.tag = "ok"
       /\ calls[i].outcome.val.globs # <<>>

\* the entries of its directory that the wildcard of a glob matches and
\* that no pattern ignores
EntriesKept(id, glob, exclude) ==
  {p \in Children(id, glob.canonical_dir) :
     /\ Matches(glob.wildcard, Last(p))
     /\ ~IsIgnored(exclude, [path |-> p])
     /\ ~EntryIgnored(id, p)}

\* the directory that a kept entry stands for: the entry itself, or what
\* the link leads to; <<>> (no directory) for every other entry
DirectoryOf(id, p) ==
  IF FsEntries(id)[p].kind = "dir" THEN <<p>>
  ELSE IF FsEntries(id)[p].kind = "link" /\ ResolvesInside(id, p)
          /\ FsEntries(id)[LinkTarget(id, p).path].kind = "dir"
       THEN << LinkTarget(id, p).path >>
       ELSE <<>>

\* the child glob was parsed for the directory of a kept entry, from the
\* remainder of the glob
ChildOfMatchedDirectory(id, glob, exclude, child) ==
  \E p \in EntriesKept(id, glob, exclude) :
    /\ DirectoryOf(id, p) # <<>>
    /\ With(parse_globs(DirectoryOf(id, p)[1], Append(glob.symbolic_path, Last(p)),
                        glob.remainder),
            LAMBDA parsed : parsed.tag = "ok" /\ child \in Range(parsed.val))

\* some Wildcard derived from the glob produced PathStats
WildcardMatchedBelow(completed, glob) ==
  \E derived \in DerivedFrom(completed, {glob}) :
    derived.kind = "Wildcard" /\ ProducedPathStats(completed, derived)

\* C32: a DirWildcard yields no PathStats, and child globs only for the
\* directories that its wildcard matched (links that lead to directories
\* among them), none for a file; a Wildcard yields no child globs, so every
\* PathStat comes from the listing of a Wildcard.  The entry of a
\* DirWildcard is inserted as DidNotMatchAnyFiles, and the walk marks it
\* exactly when a Wildcard derived from it produced PathStats.
C32_DirWildcardYieldsGlobsOnly ==
  /\ Expanding =>
       /\ \A i \in 1..Len(calls) :
            calls[i].outcome.tag = "ok" =>
              IF calls[i].arg.path_glob.kind = "Wildcard"
              THEN calls[i].outcome.val.globs = <<>>
              ELSE /\ calls[i].outcome.val.path_stats = <<>>
                   /\ \A child \in Range(calls[i].outcome.val.globs) :
                        ChildOfMatchedDirectory(vfs, calls[i].arg.path_glob,
                                                path_globs.exclude, child)
       /\ \A n \in 1..Len(expansion.completed) :
            expansion.completed[n].key.kind = "DirWildcard" =>
              expansion.completed[n].matched = Unmatched
  /\ (ExpandReturned /\ ~SomeCallFailed) =>
       With(BackPropagate(expansion.completed),
            LAMBDA w :
              \A n \in 1..Len(expansion.completed) :
                expansion.completed[n].key.kind = "DirWildcard" =>
                  (w.completed[n].matched = Matched
                     <=> WildcardMatchedBelow(expansion.completed,
                                              expansion.completed[n].key)))

\* a DirWildcard matched a file, a directory and a link to a directory,
\* and produced child globs for the directory and for the link
C32_Witness ==
  /\ pc = "round"
  /\ \E i \in 1..Len(calls) :
       /\ calls[i].arg.path_glob.kind = "DirWildcard"
       /\ calls[i].outcome.tag = "ok"
       /\ \E f, d, l \in EntriesKept(vfs, calls[i].arg.path_glob, path_globs.exclude) :
            /\ FsEntries(vfs)[f].kind = "file"
            /\ FsEntries(vfs)[d].kind = "dir"
            /\ FsEntries(vfs)[l].kind = "link"
            /\ \E child \in Range(calls[i].outcome.val.globs) :
                 child.symbolic_path = Append(calls[i].arg.path_glob.symbolic_path, Last(d))
            /\ \E child \in Range(calls[i].outcome.val.globs) :
                 /\ child.symbolic_path = Append(calls[i].arg.path_glob.symbolic_path, Last(l))
                 /\ child.canonical_dir = LinkTarget(vfs, l).path
            /\ \A child \in Range(calls[i].outcome.val.globs) :
                 child.symbolic_path # Append(calls[i].arg.path_glob.symbolic_path, Last(f))

\* the globs of a list of sourced globs
GlobsOf(sourced_globs) == {sourced_globs[i].path_glob : i \in 1..Len(sourced_globs)}

\* every entry has a source, and every ParentGlob among the sources is a key
SourcesAreKeys(completed) ==
  \A n \in 1..Len(completed) :
    /\ completed[n].sources # <<>>
    /\ \A k \in 1..Len(completed[n].sources) :
         completed[n].sources[k].kind = "ParentGlob" =>
           completed[n].sources[k].of \in Keys(completed)

\* the step in which the results of a round are merged
MergeStep == pc = "round" /\ JoinReady(slots) /\ (pc' = "done" \/ round' = round + 1)

\* the globs that the step leaves enqueued: the batch of the next round
EnqueuedAfter == IF pc' = "round" THEN {calls'[i].arg.path_glob : i \in 1..Len(calls')} ELSE {}

\* C33: the walk finds every glob that it looks up.  In every step of an
\* expansion each entry of completed has a source and each ParentGlob among
\* its sources is a key; the first batch holds the globs of all include
\* entries; the merge of a round makes every glob of the batch a key, and
\* every child glob of its results is a key or in the next batch; the loop
\* ends with an empty todo, and the walk over the final completed does not
\* panic.
C33_WalkFindsEveryGlob ==
  [][ /\ Expanding' => SourcesAreKeys(expansion'.completed)
      /\ (pc = "created" /\ pc' = "round") =>
           GlobsOf(InitialTodo(path_globs.include)) = EnqueuedAfter
      /\ MergeStep =>
           /\ \A i \in 1..Len(calls) :
                calls[i].arg.path_glob \in Keys(expansion'.completed)
           /\ \A i \in 1..Len(slots) :
                Range(slots[i].val.globs) \subseteq
                  Keys(expansion'.completed) \cup EnqueuedAfter
           /\ expansion'.todo = <<>>
      /\ (ExpandReturned' /\ ~SomeCallFailed') =>
           /\ ~BackPropagate(expansion'.completed).panicked
           /\ result' # Err("panic")
    ]_vars

\* an expansion returned whose walk followed a ParentGlob source from a
\* matched entry to the entry of its parent
C33_Witness ==
  /\ ExpandReturned
  /\ ~SomeCallFailed
  /\ should_check_glob_matches(path_globs.strict_match_behavior)
  /\ path_globs.include # <<>>
  /\ result.tag = "ok"
  /\ \E n \in 1..Len(expansion.completed) :
       /\ expansion.completed[n].matched = Matched
       /\ \E k \in 1..Len(expansion.completed[n].sources) :
            /\ expansion.completed[n].sources[k].kind = "ParentGlob"
            /\ With(IndexOfKey(expansion.completed, expansion.completed[n].sources[k].of),
                    LAMBDA parent :
                      /\ parent < n
                      /\ expansion.completed[parent].matched = Unmatched
                      /\ BackPropagate(expansion.completed).completed[parent].matched
                           = Matched)

\* the inputs of the include entries that parsed to no glob
InputsWithoutGlobs(include) ==
  {include[i].input : i \in {j \in 1..Len(include) : include[j].globs = <<>>}}

\* the result is the strict-match error, and it names the inputs
StrictErrorNames(res, inputs) ==
  /\ res.tag = "err"
  /\ res.val.kind = "strict"
  /\ inputs \subseteq Range(res.val.unmatched)

\* C34 as stated: in mode Error every expand whose include holds an input
\* without globs fails with that input reported as unmatched.
C34_AsStated ==
  (/\ ExpandReturned
   /\ path_globs.strict_match_behavior = "Error"
   /\ InputsWithoutGlobs(path_globs.include) # {})
    => StrictErrorNames(result, InputsWithoutGlobs(path_globs.include))

\* C34: an input that parses to no glob (the empty string, a file-spec of
\* `.` components) is never marked by the walk.  When every expand_single
\* call of an expansion with such an input succeeded, then in mode Error
\* expand fails with the strict-match error that names the input, in mode
\* Warn it returns the outputs and the warning names the input, and in mode
\* Ignore it returns the outputs without any check; when a call failed,
\* expand fails with the error of that call, which names no input.  With an
\* empty include, expand returns the empty sequence in every mode, and
\* nothing is logged.
C34_InputWithoutGlobsUnmatched ==
  /\ (ExpandReturned /\ path_globs.include # <<>> /\ ~SomeCallFailed) =>
       With(InputsWithoutGlobs(path_globs.include),
            LAMBDA inputs :
              /\ BackPropagate(expansion.completed).inputs_with_matches \cap inputs = {}
              /\ inputs # {} =>
                   CASE path_globs.strict_match_behavior = "Error" ->
                          StrictErrorNames(result, inputs)
                     [] path_globs.strict_match_behavior = "Warn" ->
                          /\ result = Ok(expansion.outputs)
                          /\ inputs \subseteq Range(warned)
                     [] OTHER ->
                          /\ result = Ok(expansion.outputs)
                          /\ warned = <<>>)
  /\ (ExpandReturned /\ path_globs.include # <<>> /\ SomeCallFailed) =>
       /\ \E i \in 1..Len(calls) : calls[i].outcome.tag = "err" /\ result = calls[i].outcome
       /\ result.val.kind # "strict"
  /\ (ExpandReturned /\ path_globs.include = <<>>) =>
       /\ result = Ok(<<>>)
       /\ warned = <<>>

\* in mode Error an expand of `.` and of an input that matched failed, and
\* the error names `.` alone
C34_Witness ==
  /\ ExpandReturned
  /\ ~SomeCallFailed
  /\ path_globs.strict_match_behavior = "Error"
  /\ Len(path_globs.include) = 2
  /\ InputsWithoutGlobs(path_globs.include) = { <<".">> }
  /\ expansion.outputs # <<>>
  /\ result.tag = "err"
  /\ result.val.kind = "strict"
  /\ result.val.unmatched = << <<".">> >>

\* in mode Error an expand of the empty string alone failed: no glob was
\* expanded, and the error names the empty string
C34_EmptyString ==
  /\ ExpandReturned
  /\ path_globs.strict_match_behavior = "Error"
  /\ filespecs = << <<>> >>
  /\ expansion.completed = <<>>
  /\ calls = <<>>
  /\ result.tag = "err"
  /\ result.val.unmatched = << <<>> >>

\* an expand of an empty include returned the empty sequence in mode Error
C34_EmptyInclude ==
  /\ ExpandReturned
  /\ path_globs.strict_match_behavior = "Error"
  /\ path_globs.include = <<>>
  /\ result = Ok(<<>>)

====
